---- MODULE Spec2Model ----
\* Presentation synchronisation engine of the reymato client:
\*   GameScene (src/src/GameScene.ts)   reconciler, animation records, throttled input send
\*   App       (src/unnamed/part_001)   input arbiter (joystick / keyboard precedence)
\*
\* Number representation (the source computes with IEEE doubles):
\*   times                      milliseconds (Date.now())
\*   positions, yaw             tenths of a unit
\*   pose attributes            1/10000 (rotation.x of legs/foot/character, position.z of feet)
\*   sin(progress * PI)         thousandths, tabulated on the 125 ms clock grid
\*   move / joystick / keyboard thousandths, so a magnitude test m > 0.05 is x*x + y*y > 50*50
EXTENDS Integers, Sequences, FiniteSets, TLC

VARIABLES
  now,               \* Date.now()
  joinPhase,         \* joinGame: "idle", "pending" (awaiting joinOrCreate), "joined", "failed"
  room,              \* GameScene.room # null
  myPlayerId,        \* GameScene.myPlayerId
  roomPlayers,       \* room.state.players, the last snapshot pushed by the server
  playerMeshes,      \* GameScene.playerMeshes : id -> THREE.Group
  playerAnimations,  \* GameScene.playerAnimations : id -> {type, startTime}
  headOverKick,      \* ids whose record is a head that replaced a kick still running
  camera,            \* camera.position, thousandths
  lookTarget,        \* the point of the last camera.lookAt, thousandths
  disposed,          \* id -> subtrees of id whose geometries/materials the last updateGameObjects disposed
  glows,             \* running glowAnimation closures (sequence of [color, opacity])
  created,           \* id -> createPlayerMesh calls made by the last updateGameObjects
  removed,           \* id -> playerMeshes.delete calls made by the last updateGameObjects
  glowStarted,       \* id -> glow effects started by the last updateGameObjects
  relabelled,        \* id -> label textures rebuilt by the last updateGameObjects
  currentInput,      \* GameScene.currentInput (App's input state pushed through setInput)
  staged,            \* the argument of the most recent GameScene.setInput call
  lastInputSent,     \* GameScene.lastInputSent
  sent,              \* send times of the outbound 'input' messages, oldest first
  lastOp,            \* name of the handler that ran last
  joystickVecRef,    \* App: joystickVecRef.current
  keyboardVecRef,    \* App: keyboardVecRef.current
  lastSourceRef,     \* App: lastSourceRef.current
  down,              \* App: the keyboard effect's set of keys it saw go down
  keysHeld,          \* the movement keys physically held
  currentRole,       \* App: gameState.currentRole / currentRoleRef.current
  applied,           \* the handler that ran last called applyMoveFromSources
  quadrantOverlays,  \* GameScene.quadrantOverlays : role -> material colour and opacity (hundredths)
  restoreTimers,     \* pending setTimeout closures of quadrantHighlight, in arrival order
  highlightsSeen,    \* role -> quadrantHighlight messages handled for its overlay
  tornDown,          \* dispose() has been called
  disposeCalls,      \* id -> resource -> dispose() calls made on it by GameScene.dispose
  reports,           \* what joinGame reported through onStateChange, oldest first
  sameSnapshot,      \* the snapshot just applied is the one the preceding handler applied
  pulses,            \* running pulse closures of rolesRotated, in registration order
  glowReleased,      \* what the glow closures that ended in the last glow frame released
  activePointerId,   \* RcJoystickWrapper: activePointerId.current (0 for null)
  lastOutRef,        \* RcJoystickWrapper: lastOutRef.current, thousandths
  knob,              \* RcJoystickWrapper: the offset last given to setKnob, thousandths of a pixel
  eventPointer,      \* pointerId of the last pointer event
  clearTimers,       \* App: due times of the pending timeouts that clear the action
  unsent             \* actions pressed and not carried by an outbound message since

sceneVars == <<joinPhase, room, myPlayerId, roomPlayers, playerMeshes, playerAnimations,
               headOverKick, camera, lookTarget, disposed, glows, created, removed, glowStarted,
               relabelled>>
sendVars == <<lastInputSent, sent>>
appVars == <<joystickVecRef, keyboardVecRef, lastSourceRef, down, keysHeld, currentRole>>
inputVars == <<currentInput, staged>>
eventVars == <<quadrantOverlays, restoreTimers, highlightsSeen, tornDown, disposeCalls>>
effectVars == <<pulses, glowReleased>>
joyVars == <<activePointerId, lastOutRef, knob, eventPointer>>
pressVars == <<clearTimers, unsent>>
uiVars == <<joyVars, pressVars>>
vars == <<now, sceneVars, inputVars, sendVars, lastOp, appVars, applied, eventVars, reports, sameSnapshot,
          effectVars, uiVars>>

\* ---------------------------------------------------------------- bounds
MaxTime == 1750        \* the clock stops advancing here
MaxGlows == 2          \* glow effects running at once
MaxSent == 3           \* outbound messages recorded
MaxHighlights == 2     \* quadrantHighlight messages per overlay
MaxPulses == 4         \* pulse closures running at once

\* ---------------------------------------------------------------- constants of the program
AnimDuration == 500    \* updatePlayerAnimations: elapsed < 500
courtHalfSize == 8
baseCameraDistance == 12
cameraHeight == 9
ThrottleMs == 33       \* sendInput: now - lastInputSent < 33
DeadZone == 50         \* applyMoveFromSources: magnitude > 0.05, in thousandths

PlayerIds == {"A", "B"}
SessionId == "A"       \* room.sessionId handed out by the server on join
NoId == ""             \* myPlayerId before the join completes
Roles == {"rey", "mato"}
ActionKinds == {"kick", "head", "serve"}

\* Colour strings are sequences of characters.
ColorRed == <<"#", "f", "f", "0", "0", "0", "0">>

\* PlayerState values the server pushes (x, y, z, rotY in tenths).
PlayerStates ==
  { [x |-> 0, y |-> 0, z |-> 0, rotY |-> 0, role |-> r, jumping |-> FALSE,
     color |-> ColorRed] : r \in Roles }
  \cup { [x |-> 50, y |-> 0, z |-> 50, rotY |-> 15, role |-> r, jumping |-> TRUE,
          color |-> ColorRed] : r \in Roles }

\* All snapshots over the identifiers in ids.
SnapshotsOver(ids) == UNION { [S -> PlayerStates] : S \in SUBSET ids }

\* ---------------------------------------------------------------- helpers
Restrict(f, S) == [k \in S |-> f[k]]
EmptyMap == [k \in {} |-> 0]
Zero == [p \in PlayerIds |-> 0]

\* sin(elapsed / 500 * PI) in thousandths (Math.sin(progress * Math.PI)), exact to
\* the thousandth at the grid points 0, 125, 250, 375 of the animation clock; an
\* elapsed time between two grid points takes the value of the grid point below it.
SinPi(elapsed) ==
  CASE elapsed \div 125 = 1 -> 707
    [] elapsed \div 125 = 2 -> 1000
    [] elapsed \div 125 = 3 -> 707
    [] OTHER -> 0

\* The pose attributes a fresh character has (createAmongUsCharacter): legs and
\* character unrotated, both feet at position.z = 0.1.
RestPose == [rightLegRot |-> 0, rightFootZ |-> 1000, rightFootRot |-> 0,
             leftLegRot |-> 0, leftFootZ |-> 1000, charRot |-> 0]

PoseOf(m) == [rightLegRot |-> m.rightLegRot, rightFootZ |-> m.rightFootZ,
              rightFootRot |-> m.rightFootRot, leftLegRot |-> m.leftLegRot,
              leftFootZ |-> m.leftFootZ, charRot |-> m.charRot]

\* Truncating division (the model's stand-in for the double product).
Quot(a, b) == IF a >= 0 THEN a \div b ELSE 0 - ((0 - a) \div b)
\* Variant: no clamping.
ClampNone(v, lo, hi) == v

Clamp(v, lo, hi) == IF v < lo THEN lo ELSE IF v > hi THEN hi ELSE v

\* ---------------------------------------------------------------- parseColorToHex
HexChars == <<"0", "1", "2", "3", "4", "5", "6", "7", "8", "9", "a", "b", "c", "d", "e", "f">>
UpperHex == <<"A", "B", "C", "D", "E", "F">>
Digits == {"0", "1", "2", "3", "4", "5", "6", "7", "8", "9"}

IsHexChar(c) ==
  \/ \E i \in 1..16 : HexChars[i] = c
  \/ \E i \in 1..6 : UpperHex[i] = c

HexValue(c) ==
  IF \E i \in 1..16 : HexChars[i] = c
  THEN (CHOOSE i \in 1..16 : HexChars[i] = c) - 1
  ELSE (CHOOSE i \in 1..6 : UpperHex[i] = c) + 9

DigitValue(c) == HexValue(c)

\* String.prototype.trim on blanks.
RECURSIVE TrimLeft(_)
TrimLeft(str) ==
  IF str # <<>> /\ Head(str) = " " THEN TrimLeft(Tail(str)) ELSE str

RECURSIVE TrimRight(_)
TrimRight(str) ==
  IF str # <<>> /\ str[Len(str)] = " " THEN TrimRight(SubSeq(str, 1, Len(str) - 1)) ELSE str

Trim(str) == TrimRight(TrimLeft(str))

\* str.startsWith(prefix)
StartsWith(str, prefix) ==
  Len(str) >= Len(prefix) /\ SubSeq(str, 1, Len(prefix)) = prefix

\* The value of the longest run of hexadecimal digits at the head of str, with
\* the number of digits read.
RECURSIVE HexRun(_, _, _)
HexRun(str, value, count) ==
  IF str # <<>> /\ IsHexChar(Head(str))
  THEN HexRun(Tail(str), value * 16 + HexValue(Head(str)), count + 1)
  ELSE [value |-> value, count |-> count]

\* parseInt(str, 16): leading blanks, a sign and a 0x prefix are skipped, then the
\* longest run of hexadecimal digits is read; NaN when there is none.
parseInt16(str) ==
  LET t == TrimLeft(str)
      negative == t # <<>> /\ Head(t) = "-"
      u == IF t # <<>> /\ Head(t) \in {"-", "+"} THEN Tail(t) ELSE t
      v == IF StartsWith(u, <<"0", "x">>) \/ StartsWith(u, <<"0", "X">>)
           THEN SubSeq(u, 3, Len(u)) ELSE u
      run == HexRun(v, 0, 0)
  IN IF run.count = 0 THEN [nan |-> TRUE, value |-> 0]
     ELSE [nan |-> FALSE, value |-> IF negative THEN 0 - run.value ELSE run.value]

\* Index of the first character at or after i that is not a blank (\s*).
RECURSIVE SkipBlanks(_, _)
SkipBlanks(str, i) ==
  IF i <= Len(str) /\ str[i] = " " THEN SkipBlanks(str, i + 1) ELSE i

\* Index of the first character at or after i outside [\d.] ([\d.]+ is greedy).
RECURSIVE SkipNumber(_, _)
SkipNumber(str, i) ==
  IF i <= Len(str) /\ (str[i] \in Digits \/ str[i] = ".") THEN SkipNumber(str, i + 1) ELSE i

CharAt(str, i) == IF i >= 1 /\ i <= Len(str) THEN str[i] ELSE ""

\* One numeric group followed by the literal after it: \s*([\d.]+)<unit>\s*<sep>
\* starting at i; the group's text and the index after the separator.
NumberGroup(str, i, unit, sep) ==
  LET a == SkipBlanks(str, i)
      b == SkipNumber(str, a)
      c == IF unit = "" THEN b ELSE b + 1
      d == SkipBlanks(str, c)
  IN [ok |-> /\ b > a
             /\ (unit = "" \/ CharAt(str, b) = unit)
             /\ CharAt(str, d) = sep,
      text |-> IF b > a THEN SubSeq(str, a, b - 1) ELSE <<>>,
      next |-> d + 1]

\* The regular expression /hsl\(\s*([\d.]+)\s*,\s*([\d.]+)%\s*,\s*([\d.]+)%\s*\)/i
\* tried at position i.
HslAt(str, i) ==
  LET head == /\ CharAt(str, i) \in {"h", "H"} /\ CharAt(str, i + 1) \in {"s", "S"}
              /\ CharAt(str, i + 2) \in {"l", "L"} /\ CharAt(str, i + 3) = "("
      g1 == NumberGroup(str, i + 4, "", ",")
      g2 == NumberGroup(str, g1.next, "%", ",")
      g3 == NumberGroup(str, g2.next, "%", ")")
  IN [ok |-> head /\ g1.ok /\ g2.ok /\ g3.ok, h |-> g1.text, s |-> g2.text, l |-> g3.text]

\* c.match(...): the first position at which the expression matches.
HslMatch(str) ==
  IF \E i \in 1..Len(str) : HslAt(str, i).ok
  THEN HslAt(str, CHOOSE i \in 1..Len(str) :
                    HslAt(str, i).ok /\ \A j \in 1..(i - 1) : ~HslAt(str, j).ok)
  ELSE [ok |-> FALSE, h |-> <<>>, s |-> <<>>, l |-> <<>>]

\* parseFloat on a group of digits and dots, to the unit: the digits before the
\* first dot; NaN when the text has no digit before or right after its first dot.
RECURSIVE DigitRun(_, _)
DigitRun(str, value) ==
  IF str # <<>> /\ Head(str) \in Digits
  THEN DigitRun(Tail(str), value * 10 + DigitValue(Head(str)))
  ELSE value

parseFloatUnits(text) ==
  [nan |-> ~(\/ Head(text) \in Digits
             \/ (Len(text) >= 2 /\ text[2] \in Digits)),
   value |-> DigitRun(text, 0)]

\* hue2rgb(p, q, t) with p and q in 1/10000 and t in degrees (t = 1 is 360).
hue2rgb(pp, qq, t0) ==
  LET t == IF t0 < 0 THEN t0 + 360 ELSE IF t0 > 360 THEN t0 - 360 ELSE t0
  IN IF t < 60 THEN pp + ((qq - pp) * t) \div 60
     ELSE IF t < 180 THEN qq
     ELSE IF t < 240 THEN pp + ((qq - pp) * (240 - t)) \div 60
     ELSE pp

\* Math.round(v * 255) for v in 1/10000
Round255(v) == (v * 255 * 2 + 10000) \div 20000

\* The hsl branch: h in degrees, s and l in percent.
hslToHex(h, s, l) ==
  LET hh == h % 360
      ss == Clamp(s, 0, 100)
      ll == Clamp(l, 0, 100)
      qq == IF ll < 50 THEN ll * (100 + ss) ELSE (ll + ss) * 100 - ll * ss
      pp == 2 * ll * 100 - qq
  IN Round255(hue2rgb(pp, qq, hh + 120)) * 65536
     + Round255(hue2rgb(pp, qq, hh)) * 256
     + Round255(hue2rgb(pp, qq, hh - 120))

\* The colour names the canvas knows in the strings of the model, with the
\* '#rrggbb' form fillStyle reads back.
CssNamed ==
  { [name |-> <<"g", "r", "a", "y">>, hex |-> <<"#", "8", "0", "8", "0", "8", "0">>],
    [name |-> <<"r", "e", "d">>, hex |-> <<"#", "f", "f", "0", "0", "0", "0">>] }

\* ctx.fillStyle = '#000000'; ctx.fillStyle = c; return ctx.fillStyle: a string the
\* canvas does not parse as a colour is ignored and the previous value stays.
canvasFillStyle(c) ==
  IF \E n \in CssNamed : n.name = c
  THEN (CHOOSE n \in CssNamed : n.name = c).hex
  ELSE <<"#", "0", "0", "0", "0", "0", "0">>

NeutralColor == 8421504   \* 0x808080

\* parseColorToHex(color); has2d: getContext('2d') returned a context.
parseColorToHex(color, has2d) ==
  IF color = <<>> THEN NeutralColor
  ELSE
    LET c == Trim(color)
        n == parseInt16(Tail(c))
        m == HslMatch(c)
        computed == canvasFillStyle(c)
        k == parseInt16(Tail(computed))
    IN IF StartsWith(c, <<"#">>) /\ ~n.nan THEN n.value
       ELSE IF StartsWith(c, <<"h", "s", "l">>) /\ m.ok
       THEN IF parseFloatUnits(m.h).nan \/ parseFloatUnits(m.s).nan \/ parseFloatUnits(m.l).nan
            THEN 0
            ELSE hslToHex(parseFloatUnits(m.h).value, parseFloatUnits(m.s).value,
                          parseFloatUnits(m.l).value)
       ELSE IF has2d /\ StartsWith(computed, <<"#">>) /\ ~k.nan THEN k.value
       ELSE NeutralColor

\* player.color || '#808080'
colorOrDefault(color) ==
  IF color = <<>> THEN <<"#", "8", "0", "8", "0", "8", "0">> ELSE color

\* The body colour updateGameObjects and createPlayerMesh give an entity; the
\* browser that renders the scene hands out 2d contexts.
bodyColorOf(player) == parseColorToHex(colorOrDefault(player.color), TRUE)

\* Variant: the group is created without a cached role (userData.role undefined).
createPlayerMeshNoRole(role) ==
  [position |-> <<0, 0, 0>>, rotY |-> 0, role |-> "undefined", label |-> role,
   bodyColor |-> NeutralColor, scale |-> 1000,
   rightLegRot |-> 0, rightFootZ |-> 1000, rightFootRot |-> 0,
   leftLegRot |-> 0, leftFootZ |-> 1000, charRot |-> 0]

\* createPlayerMesh(playerId, nickname, role, color): a group at the origin whose
\* userData.role and label are built from the role given; the players loop writes
\* the body colour of the new group in the same call.
createPlayerMesh(role) ==
  [position |-> <<0, 0, 0>>, rotY |-> 0, role |-> role, label |-> role, bodyColor |-> NeutralColor,
   scale |-> 1000,
   rightLegRot |-> 0, rightFootZ |-> 1000, rightFootRot |-> 0,
   leftLegRot |-> 0, leftFootZ |-> 1000, charRot |-> 0]

getRoleColor(role) ==
  CASE role = "rey" -> "FFD700"
    [] role = "rey1" -> "C0C0C0"
    [] role = "rey2" -> "CD7F32"
    [] role = "mato" -> "FF6B6B"
    [] OTHER -> "808080"

\* ---------------------------------------------------------------- reconciler
\* Variant: the has() test dropped, a mesh is built for every identifier of the snapshot.
isNewPlayerAlways(held, playerId) == TRUE

\* The players loop of updateGameObjects creates a mesh for exactly the identifiers
\* of the snapshot that playerMeshes does not hold (!this.playerMeshes.has(playerId)).
isNewPlayer(held, playerId) == playerId \notin held

\* Variant: the role comparison dropped, every snapshot counts as a role change.
roleChangedAlways(previousRole, role) == TRUE

\* previousRole !== player.role
roleChanged(previousRole, role) == previousRole # role

\* Variant: the pose eased halfway toward the snapshot instead of copied.
syncPlayerEased(mesh, player) ==
  [mesh EXCEPT !.position = <<(mesh.position[1] + player.x) \div 2,
                              (mesh.position[2] + player.y) \div 2,
                              (mesh.position[3] + player.z) \div 2>>,
               !.rotY = (mesh.rotY + player.rotY) \div 2,
               !.role = player.role,
               !.label = IF mesh.role # player.role THEN player.role ELSE mesh.label]

\* Variant: the yaw of the snapshot is added to the entity's yaw.
syncPlayerTurns(mesh, player) ==
  [mesh EXCEPT !.position = <<player.x, player.y, player.z>>,
               !.rotY = mesh.rotY + player.rotY,
               !.bodyColor = bodyColorOf(player),
               !.role = player.role,
               !.label = IF mesh.role # player.role THEN player.role ELSE mesh.label]

\* The body of the players loop for one identifier: the pose is copied from the
\* snapshot, userData.role and the label follow a changed role.
syncPlayer(mesh, player) ==
  [mesh EXCEPT !.position = <<player.x, player.y, player.z>>,
               !.rotY = player.rotY,
               !.bodyColor = bodyColorOf(player),
               !.role = player.role,
               !.label = IF roleChanged(mesh.role, player.role) THEN player.role ELSE mesh.label]

\* The removal loop deletes the identifiers held that the snapshot lacks.
removedPlayers(held, state) == { p \in held : p \notin DOMAIN state }

\* Number of times the removal loop disposes the geometries, materials and label
\* texture of a deleted entity: the loop only detaches the group (scene.remove)
\* and deletes the map entry.
disposalsOnRemove(playerId) == 0

\* A glow closure right after updateGameObjects ran its first step synchronously:
\* glowOpacity = 0.8 - 0.02, in hundredths.
newGlow(role) == [color |-> getRoleColor(role), opacity |-> 80 - 2]

\* The elements of a set of identifiers in a fixed order (Map iteration order).
RECURSIVE SeqOf(_)
SeqOf(S) ==
  IF S = {} THEN <<>>
  ELSE LET p == CHOOSE q \in S : TRUE IN <<p>> \o SeqOf(S \ {p})

RECURSIVE glowsFor(_, _)
glowsFor(ids, state) ==
  IF ids = <<>> THEN <<>>
  ELSE <<newGlow(state[Head(ids)].role)>> \o glowsFor(Tail(ids), state)

updateGameObjects(state) ==
  LET held == DOMAIN playerMeshes
      fresh == { p \in DOMAIN state : isNewPlayer(held, p) }
      before == [p \in DOMAIN state |->
                   IF p \in fresh THEN createPlayerMesh(state[p].role) ELSE playerMeshes[p]]
      changed == { p \in DOMAIN state : roleChanged(before[p].role, state[p].role) }
      gone == removedPlayers(held \cup fresh, state)
      kept == (held \cup fresh) \ gone
  IN /\ playerMeshes' = [p \in kept |->
                           IF p \in DOMAIN state THEN syncPlayer(before[p], state[p])
                           ELSE playerMeshes[p]]
     /\ created' = [p \in PlayerIds |-> IF p \in fresh THEN 1 ELSE 0]
     /\ removed' = [p \in PlayerIds |-> IF p \in gone THEN 1 ELSE 0]
     /\ glowStarted' = [p \in PlayerIds |-> IF p \in changed THEN 1 ELSE 0]
     /\ relabelled' = [p \in PlayerIds |-> IF p \in changed THEN 1 ELSE 0]
     /\ glows' = glows \o glowsFor(SeqOf(changed), state)
     /\ disposed' = [p \in PlayerIds |-> IF p \in gone THEN disposalsOnRemove(p) ELSE 0]

\* updateUI(state): the local player's role reaches App's gameState.currentRole;
\* a changed role re-runs App's keyboard effect, whose new closure holds no key.
updateUI(state) ==
  LET role == IF myPlayerId \in DOMAIN state THEN state[myPlayerId].role ELSE currentRole
  IN /\ currentRole' = role
     /\ down' = IF role # currentRole THEN {} ELSE down

\* room.onStateChange callback registered by joinGame; it runs while the room is
\* joined (dispose() leaves the room). A pulse closure whose group the removal loop
\* detached goes on writing to that detached group only and is no longer followed.
OnStateChange(state) ==
  /\ room
  /\ ~tornDown
  /\ roomPlayers' = state
  /\ updateGameObjects(state)
  /\ Len(glows') <= MaxGlows
  /\ updateUI(state)
  /\ lastOp' = "updateGameObjects"
  /\ applied' = FALSE
  /\ sameSnapshot' = (lastOp = "updateGameObjects" /\ state = roomPlayers)
  /\ pulses' = SelectSeq(pulses, LAMBDA q : q.pid \in DOMAIN state)
  /\ UNCHANGED <<now, joinPhase, room, myPlayerId, playerAnimations, headOverKick, camera, lookTarget, inputVars,
                 sendVars, joystickVecRef, keyboardVecRef, lastSourceRef, keysHeld,
                 eventVars, reports, glowReleased, uiVars>>

\* ---------------------------------------------------------------- animation records
\* animatePlayerKick(playerId, action): the record of playerId is overwritten.
animatePlayerKick(anims, playerId, action) ==
  [p \in DOMAIN anims \cup {playerId} |->
     IF p = playerId THEN [type |-> action, startTime |-> now] ELSE anims[p]]

\* History kept for the claims: playerId's record after animatePlayerKick is a head
\* that replaced a kick record younger than the animation's duration.
noteTrigger(anims, playerId, action) ==
  IF /\ action = "head"
     /\ playerId \in DOMAIN anims
     /\ anims[playerId].type = "kick"
     /\ now - anims[playerId].startTime < AnimDuration
  THEN headOverKick \cup {playerId}
  ELSE headOverKick \ {playerId}

\* The test that keeps a record running:
\* (animation.type === 'kick' || animation.type === 'head') && elapsed < 500
isRunning(animation, elapsed) ==
  /\ animation.type \in {"kick", "head"}
  /\ elapsed < AnimDuration

\* The pose a running record writes, with kickProgress = sin(progress * PI).
animatedPose(mesh, animation, elapsed) ==
  LET kickProgress == SinPi(elapsed) IN
  IF animation.type = "kick"
  THEN [mesh EXCEPT !.rightLegRot = kickProgress * 12,
                    !.rightFootZ = 1000 + kickProgress * 6,
                    !.rightFootRot = kickProgress * 5,
                    !.leftLegRot = 0 - kickProgress * 3,
                    !.leftFootZ = 1000 - kickProgress * 2,
                    !.charRot = kickProgress * 2]
  ELSE [mesh EXCEPT !.charRot = kickProgress * 3]

\* Variant: the else branch resets the legs and feet and leaves the character lean.
resetPoseLegsOnly(mesh) ==
  [mesh EXCEPT !.rightLegRot = 0, !.rightFootZ = 1000, !.rightFootRot = 0,
               !.leftLegRot = 0, !.leftFootZ = 1000]

\* The else branch: every driven part back to neutral.
resetPose(mesh) ==
  [mesh EXCEPT !.rightLegRot = 0, !.rightFootZ = 1000, !.rightFootRot = 0,
               !.leftLegRot = 0, !.leftFootZ = 1000, !.charRot = 0]

\* What the loop does with the record of an identifier that has no mesh
\* (if (!playerMesh) continue): TRUE when the record stays in the map.
keepsOrphan(animation) == TRUE

\* Records left in playerAnimations by one run of updatePlayerAnimations.
animationsAfter(meshes, anims) ==
  Restrict(anims, { p \in DOMAIN anims :
                      IF p \in DOMAIN meshes
                      THEN isRunning(anims[p], now - anims[p].startTime)
                      ELSE keepsOrphan(anims[p]) })

\* Variant: the else branch also deletes the entity whose record it deletes.
meshesAfterDropsFinished(meshes, anims) ==
  [p \in { q \in DOMAIN meshes :
             q \in DOMAIN anims => isRunning(anims[q], now - anims[q].startTime) } |->
     IF p \notin DOMAIN anims THEN meshes[p]
     ELSE animatedPose(meshes[p], anims[p], now - anims[p].startTime)]

\* Meshes after one run of updatePlayerAnimations.
meshesAfter(meshes, anims) ==
  [p \in DOMAIN meshes |->
     IF p \notin DOMAIN anims THEN meshes[p]
     ELSE IF isRunning(anims[p], now - anims[p].startTime)
          THEN animatedPose(meshes[p], anims[p], now - anims[p].startTime)
          ELSE resetPose(meshes[p])]

\* ---------------------------------------------------------------- frame

defaultCameraPos == <<0, cameraHeight * 1000, (courtHalfSize + baseCameraDistance) * 1000>>

\* Variant: the default framing placed above the court centre.
desiredCameraPosCentre ==
  IF room /\ myPlayerId \in DOMAIN roomPlayers
  THEN LET myPlayer == roomPlayers[myPlayerId]
       IN <<Clamp(myPlayer.x * 40, -3000, 3000), cameraHeight * 1000,
            (IF myPlayer.role = "rey" \/ myPlayer.role = "rey1"
             THEN (courtHalfSize + baseCameraDistance) * 1000
             ELSE 0 - (courtHalfSize + baseCameraDistance) * 1000)
            + Clamp(myPlayer.z * 25, -2000, 2000)>>
  ELSE <<0, cameraHeight * 1000, 0>>

\* Variant: only the rey quadrant counts as the top side.
isTopSideReyOnly(role) == role = "rey"

\* const isTopSide = myPlayer.role === 'rey' || myPlayer.role === 'rey1'
isTopSide(role) == role = "rey" \/ role = "rey1"

\* desiredCameraPos of update(), thousandths (player coordinates are tenths).
desiredCameraPos ==
  IF room /\ myPlayerId \in DOMAIN roomPlayers
  THEN LET myPlayer == roomPlayers[myPlayerId]
           shiftX == Clamp(myPlayer.x * 40, -3000, 3000)
           baseZ == IF isTopSide(myPlayer.role) THEN (courtHalfSize + baseCameraDistance) * 1000
                    ELSE 0 - (courtHalfSize + baseCameraDistance) * 1000
           shiftZ == Clamp(myPlayer.z * 25, -2000, 2000)
       IN <<shiftX, cameraHeight * 1000, baseZ + shiftZ>>
  ELSE defaultCameraPos

\* lookTarget of update(): (myPlayer.x * 0.3, 1, 0) for a present local player,
\* (0, 1, 0) otherwise; thousandths.
desiredLookTarget ==
  IF room /\ myPlayerId \in DOMAIN roomPlayers
  THEN <<roomPlayers[myPlayerId].x * 30, 1000, 0>>
  ELSE <<0, 1000, 0>>

\* Variant: the camera is set on the desired position (lerp factor 1).
lerpCameraSnap(pos, desired) == desired

\* camera.position.lerp(desiredCameraPos, cameraFollowLerp) with cameraFollowLerp = 0.06
lerpCamera(pos, desired) ==
  [i \in 1..3 |-> pos[i] + Quot((desired[i] - pos[i]) * 6, 100)]

\* sin(Date.now() * 0.01) * 0.1 lies in [-0.1, 0.1]; in tenths the offsets are
JumpOffsets == {-1, 0, 1}

NothingReleased == [ended |-> 0, sceneRemoved |-> 0, geometry |-> 0, material |-> 0]

\* Variant: a closure whose opacity has reached zero runs one more frame.
glowReschedulesAtZero(opacity) == opacity >= 0

\* if (glowOpacity > 0) requestAnimationFrame(glowAnimation), opacity in hundredths
glowReschedules(opacity) == opacity > 0

\* One step of every running glowAnimation closure: opacity drops by 0.02 and the
\* closure reschedules itself while the opacity is positive.
stepGlows(gs) ==
  SelectSeq([i \in 1..Len(gs) |-> [gs[i] EXCEPT !.opacity = @ - 2]],
            LAMBDA g : glowReschedules(g.opacity))

\* The else branch of the closures that do not reschedule in this frame:
\* scene.remove(glowMesh), glowGeometry.dispose(), glowMaterial.dispose(), one call
\* each per closure.
glowRelease(gs) ==
  LET n == Len(gs) - Len(stepGlows(gs))
  IN [ended |-> n, sceneRemoved |-> n, geometry |-> n, material |-> n]

\* The render loop's requestAnimationFrame callback: update().
Update ==
  /\ camera' = lerpCamera(camera, desiredCameraPos)
  /\ lookTarget' = desiredLookTarget
  /\ playerAnimations' = animationsAfter(playerMeshes, playerAnimations)
  /\ headOverKick' = headOverKick \cap DOMAIN animationsAfter(playerMeshes, playerAnimations)
  /\ \E off \in [{ p \in DOMAIN playerMeshes :
                     room /\ p \in DOMAIN roomPlayers /\ roomPlayers[p].jumping } -> JumpOffsets] :
       playerMeshes' =
         LET ms == meshesAfter(playerMeshes, playerAnimations) IN
         [p \in DOMAIN ms |->
            IF room /\ p \in DOMAIN roomPlayers
            THEN [ms[p] EXCEPT !.position[2] =
                    roomPlayers[p].y + (IF p \in DOMAIN off THEN off[p] ELSE 0)]
            ELSE ms[p]]
  /\ lastOp' = "update"
  /\ applied' = FALSE
  /\ sameSnapshot' = FALSE
  /\ UNCHANGED <<now, joinPhase, room, myPlayerId, roomPlayers, disposed, glows, created,
                 removed, glowStarted, relabelled, inputVars, sendVars, appVars,
                 eventVars, reports, effectVars, uiVars>>

\* The requestAnimationFrame callbacks of the running glow closures, one frame.
GlowFrame ==
  /\ glows # <<>>
  /\ glows' = stepGlows(glows)
  /\ glowReleased' = glowRelease(glows)
  /\ lastOp' = "glowAnimation"
  /\ applied' = FALSE
  /\ sameSnapshot' = FALSE
  /\ UNCHANGED <<now, joinPhase, room, myPlayerId, roomPlayers, playerMeshes, playerAnimations,
                 headOverKick, camera, lookTarget, disposed, created, removed, glowStarted, relabelled, inputVars,
                 sendVars, appVars,
                 eventVars, reports, pulses, uiVars>>

\* Date.now() moves on.
AdvanceClock(d) ==
  /\ now + d <= MaxTime
  /\ now' = now + d
  /\ lastOp' = "clock"
  /\ applied' = FALSE
  /\ sameSnapshot' = FALSE
  /\ UNCHANGED <<sceneVars, inputVars, sendVars, appVars,
                 eventVars, reports, effectVars, uiVars>>

\* ---------------------------------------------------------------- session
\* handleJoinGame -> joinGame(nickname): the request is in flight; the nickname
\* modal closes, which shows the controls and binds the movement keys.
JoinGame ==
  /\ joinPhase = "idle"
  /\ joinPhase' = "pending"
  /\ lastOp' = "joinGame"
  /\ applied' = FALSE
  /\ sameSnapshot' = FALSE
  /\ UNCHANGED <<now, room, myPlayerId, roomPlayers, playerMeshes, playerAnimations, headOverKick, camera, lookTarget,
                 disposed, glows, created, removed, glowStarted, relabelled, inputVars,
                 sendVars, appVars,
                 eventVars, reports, effectVars, uiVars>>

\* joinOrCreate resolved: room and myPlayerId are set, the handlers registered.
JoinResolved ==
  /\ joinPhase = "pending"
  /\ joinPhase' = "joined"
  /\ room' = TRUE
  /\ myPlayerId' = SessionId
  /\ lastOp' = "joinGame"
  /\ applied' = FALSE
  /\ sameSnapshot' = FALSE
  /\ reports' = Append(reports, [connected |-> TRUE, error |-> FALSE])
  /\ UNCHANGED <<now, roomPlayers, playerMeshes, playerAnimations, headOverKick, camera, lookTarget, disposed, glows,
                 created, removed, glowStarted, relabelled, inputVars, sendVars, appVars,
                 eventVars, effectVars, uiVars>>

\* Variant: the rejection is swallowed, nothing is reported upward.
JoinRejectedSilent ==
  /\ joinPhase = "pending"
  /\ joinPhase' = "failed"
  /\ lastOp' = "joinGame"
  /\ applied' = FALSE
  /\ sameSnapshot' = FALSE
  /\ UNCHANGED <<now, room, myPlayerId, roomPlayers, playerMeshes, playerAnimations, headOverKick, camera, lookTarget,
                 disposed, glows, created, removed, glowStarted, relabelled, inputVars,
                 sendVars, appVars, eventVars, reports, effectVars, uiVars>>

\* joinOrCreate rejected: the catch block only reports the failure
\* (onStateChange({connected: false, error})); room and myPlayerId are not assigned.
JoinRejected ==
  /\ joinPhase = "pending"
  /\ joinPhase' = "failed"
  /\ reports' = Append(reports, [connected |-> FALSE, error |-> TRUE])
  /\ lastOp' = "joinGame"
  /\ applied' = FALSE
  /\ sameSnapshot' = FALSE
  /\ UNCHANGED <<now, room, myPlayerId, roomPlayers, playerMeshes, playerAnimations, headOverKick, camera, lookTarget,
                 disposed, glows, created, removed, glowStarted, relabelled, inputVars,
                 sendVars, appVars, eventVars, effectVars, uiVars>>

\* ---------------------------------------------------------------- game events
\* The overlays createCourt stores in quadrantOverlays: colour and opacity 0.3.
OverlayRoles == {"rey", "rey1", "rey2", "mato"}
initialOverlays ==
  [r \in OverlayRoles |-> [color |-> getRoleColor(r), opacity |-> 30]]

FlashMs == 600

\* color === 'red' ? 0xFF0000 : 0x0000FF
targetColor(color) == IF color = "red" THEN "FF0000" ELSE "0000FF"

\* Variant: the timeout restores the colour and leaves the opacity of the flash.
restoredOverlayColourOnly(overlay, timer) == [overlay EXCEPT !.color = timer.color]

\* What the setTimeout closure writes: the colour and opacity it captured.
restoredOverlay(overlay, timer) == [color |-> timer.color, opacity |-> timer.opacity]

\* handleGameEvent for {type: 'quadrantHighlight', role, color}: an overlay that
\* exists is painted and a timeout captures what it showed; no overlay, no effect.
OnQuadrantHighlight(role, color) ==
  /\ room
  /\ ~tornDown
  /\ IF role \in DOMAIN quadrantOverlays
     THEN /\ highlightsSeen[role] < MaxHighlights
          /\ restoreTimers' = Append(restoreTimers,
                                     [role |-> role, color |-> quadrantOverlays[role].color,
                                      opacity |-> quadrantOverlays[role].opacity,
                                      due |-> now + FlashMs])
          /\ quadrantOverlays' = [quadrantOverlays EXCEPT
                                   ![role] = [color |-> targetColor(color), opacity |-> 65]]
          /\ highlightsSeen' = [highlightsSeen EXCEPT ![role] = @ + 1]
     ELSE UNCHANGED <<quadrantOverlays, restoreTimers, highlightsSeen>>
  /\ lastOp' = "quadrantHighlight"
  /\ applied' = FALSE
  /\ sameSnapshot' = FALSE
  /\ UNCHANGED <<now, sceneVars, inputVars, sendVars, appVars, tornDown, disposeCalls, reports,
                 effectVars, uiVars>>

\* The oldest pending timeout of a highlight runs once its 600 ms have passed.
HighlightRestore ==
  /\ restoreTimers # <<>>
  /\ now >= Head(restoreTimers).due
  /\ quadrantOverlays' =
       [quadrantOverlays EXCEPT
          ![Head(restoreTimers).role] = restoredOverlay(@, Head(restoreTimers))]
  /\ restoreTimers' = Tail(restoreTimers)
  /\ lastOp' = "highlightRestore"
  /\ applied' = FALSE
  /\ sameSnapshot' = FALSE
  /\ UNCHANGED <<now, sceneVars, inputVars, sendVars, appVars, highlightsSeen, tornDown,
                 disposeCalls, reports, effectVars, uiVars>>

\* ---------------------------------------------------------------- scale pulses
PulseStep == 8         \* t += 0.08, hundredths
PulseEnd == 100        \* if (t < 1)

\* 1 + Math.sin(t * Math.PI) * 0.2 in thousandths, at the values t takes.
PulseScale(t) ==
  CASE t = 8 -> 1050  [] t = 16 -> 1096 [] t = 24 -> 1137 [] t = 32 -> 1169
    [] t = 40 -> 1190 [] t = 48 -> 1200 [] t = 56 -> 1196 [] t = 64 -> 1181
    [] t = 72 -> 1154 [] t = 80 -> 1118 [] t = 88 -> 1074 [] t = 96 -> 1025
    [] OTHER -> 975

\* const baseScale = mesh.scale.x || 1
baseScaleOf(mesh) == IF mesh.scale = 0 THEN 1000 ELSE mesh.scale

pulseContinues(t) == t < PulseEnd

\* One call of every pulse closure in ps, in registration order: the scale of the
\* step is written, and a closure that does not reschedule writes its baseScale.
RECURSIVE runPulses(_, _, _)
runPulses(ps, meshes, kept) ==
  IF ps = <<>> THEN [meshes |-> meshes, pulses |-> kept]
  ELSE LET q == Head(ps)
           t == q.t + PulseStep
       IN runPulses(Tail(ps),
                    [meshes EXCEPT ![q.pid].scale =
                       IF pulseContinues(t) THEN PulseScale(t) ELSE q.baseScale],
                    IF pulseContinues(t) THEN Append(kept, [q EXCEPT !.t = t]) ELSE kept)

RECURSIVE pulsesFor(_, _)
pulsesFor(ids, meshes) ==
  IF ids = <<>> THEN <<>>
  ELSE <<[pid |-> Head(ids), baseScale |-> baseScaleOf(meshes[Head(ids)]), t |-> 0]>>
       \o pulsesFor(Tail(ids), meshes)

\* handleGameEvent for {type: 'rolesRotated'}: every entity held gets a pulse
\* closure, whose first call runs at once.
OnRolesRotated ==
  /\ room
  /\ ~tornDown
  /\ playerMeshes # EmptyMap
  /\ Len(pulses) + Cardinality(DOMAIN playerMeshes) <= MaxPulses
  /\ LET started == runPulses(pulsesFor(SeqOf(DOMAIN playerMeshes), playerMeshes),
                              playerMeshes, <<>>)
     IN /\ playerMeshes' = started.meshes
        /\ pulses' = pulses \o started.pulses
  /\ lastOp' = "rolesRotated"
  /\ applied' = FALSE
  /\ sameSnapshot' = FALSE
  /\ UNCHANGED <<now, joinPhase, room, myPlayerId, roomPlayers, playerAnimations, headOverKick,
                 camera, lookTarget, disposed, glows, created, removed, glowStarted, relabelled,
                 inputVars, sendVars, appVars, eventVars, reports, glowReleased, uiVars>>

\* The requestAnimationFrame callbacks of the running pulse closures, one frame.
PulseFrame ==
  /\ pulses # <<>>
  /\ LET stepped == runPulses(pulses, playerMeshes, <<>>)
     IN /\ playerMeshes' = stepped.meshes
        /\ pulses' = stepped.pulses
  /\ lastOp' = "pulse"
  /\ applied' = FALSE
  /\ sameSnapshot' = FALSE
  /\ UNCHANGED <<now, joinPhase, room, myPlayerId, roomPlayers, playerAnimations, headOverKick,
                 camera, lookTarget, disposed, glows, created, removed, glowStarted, relabelled,
                 inputVars, sendVars, appVars, eventVars, reports, glowReleased, uiVars>>

\* ---------------------------------------------------------------- teardown
\* The parts createPlayerMesh and createAmongUsCharacter put under an entity's
\* group, with the geometry, material and texture each one holds. The two legs
\* share legGeometry and legMaterial, the two feet footGeometry and footMaterial;
\* the label is a THREE.Sprite.
EntityParts ==
  { [name |-> "body", isMesh |-> TRUE, owns |-> {"bodyGeometry", "bodyMaterial"}],
    [name |-> "visor", isMesh |-> TRUE, owns |-> {"visorGeometry", "visorMaterial"}],
    [name |-> "backpack", isMesh |-> TRUE, owns |-> {"backpackGeometry", "backpackMaterial"}],
    [name |-> "leftLeg", isMesh |-> TRUE, owns |-> {"legGeometry", "legMaterial"}],
    [name |-> "rightLeg", isMesh |-> TRUE, owns |-> {"legGeometry", "legMaterial"}],
    [name |-> "leftFoot", isMesh |-> TRUE, owns |-> {"footGeometry", "footMaterial"}],
    [name |-> "rightFoot", isMesh |-> TRUE, owns |-> {"footGeometry", "footMaterial"}],
    [name |-> "labelSprite", isMesh |-> FALSE, owns |-> {"labelMaterial", "labelTexture"}] }

Resources == UNION { part.owns : part \in EntityParts }

\* mesh.traverse in dispose(): every child that is a THREE.Mesh has its geometry
\* and its material disposed; a material's map is not touched.
traverseDisposals(resource) ==
  Cardinality({ part \in EntityParts :
                  part.isMesh /\ resource \in part.owns /\ resource # "labelTexture" })

NoDisposals == [p \in PlayerIds |-> [r \in Resources |-> 0]]

\* GameScene.dispose(): room.leave(), then the resources of every entity held.
\* The send interval, the render loop and the pending timeouts are left running,
\* and room keeps its reference.
Dispose ==
  /\ ~tornDown
  /\ tornDown' = TRUE
  /\ disposeCalls' = [p \in PlayerIds |->
                        [r \in Resources |->
                           IF p \in DOMAIN playerMeshes THEN traverseDisposals(r) ELSE 0]]
  /\ lastOp' = "dispose"
  /\ applied' = FALSE
  /\ sameSnapshot' = FALSE
  /\ UNCHANGED <<now, sceneVars, inputVars, sendVars, appVars, quadrantOverlays,
                 restoreTimers, highlightsSeen, reports, effectVars, uiVars>>

\* ---------------------------------------------------------------- input staging and send
\* Variant: an input staged with a non-zero move is kept until it is replaced by
\* one with a zero move (staged inputs not overwritten).
setInputKeepsMove(input) ==
  /\ IF input.action # "null" /\ currentInput.action # input.action
     THEN /\ playerAnimations' = animatePlayerKick(playerAnimations, myPlayerId, input.action)
          /\ headOverKick' = noteTrigger(playerAnimations, myPlayerId, input.action)
     ELSE UNCHANGED <<playerAnimations, headOverKick>>
  /\ currentInput' = IF currentInput.move # <<0, 0>> /\ input.move # <<0, 0>>
                     THEN currentInput ELSE input
  /\ staged' = input

\* GameScene.setInput(input): a new non-null action starts an animation of the
\* local player; the input is staged.
setInput(input) ==
  /\ IF input.action # "null" /\ currentInput.action # input.action
     THEN /\ playerAnimations' = animatePlayerKick(playerAnimations, myPlayerId, input.action)
          /\ headOverKick' = noteTrigger(playerAnimations, myPlayerId, input.action)
     ELSE UNCHANGED <<playerAnimations, headOverKick>>
  /\ currentInput' = input
  /\ staged' = input

\* App's input effect: gameSceneRef.current.setInput(input).
SetInput(input) ==
  /\ joinPhase # "idle"
  /\ setInput(input)
  /\ lastOp' = "setInput"
  /\ applied' = FALSE
  /\ sameSnapshot' = FALSE
  /\ UNCHANGED <<now, joinPhase, room, myPlayerId, roomPlayers, playerMeshes, camera, lookTarget, disposed,
                 glows, created, removed, glowStarted, relabelled, sendVars, appVars,
                 eventVars, reports, effectVars, uiVars>>

\* room.onMessage('playerAnimation'): animatePlayerKick(message.playerId, message.action)
OnPlayerAnimation(playerId, action) ==
  /\ room
  /\ ~tornDown
  /\ playerAnimations' = animatePlayerKick(playerAnimations, playerId, action)
  /\ headOverKick' = noteTrigger(playerAnimations, playerId, action)
  /\ lastOp' = "playerAnimation"
  /\ applied' = FALSE
  /\ sameSnapshot' = FALSE
  /\ UNCHANGED <<now, joinPhase, room, myPlayerId, roomPlayers, playerMeshes, camera, lookTarget, disposed,
                 glows, created, removed, glowStarted, relabelled, inputVars, sendVars,
                 appVars,
                 eventVars, reports, effectVars, uiVars>>

\* Variant: the throttle test dropped, every timer firing sends.
throttledNever(t, last) == FALSE

\* sendInput's throttle test: now - this.lastInputSent < 33 returns early.
throttled(t, last) == t - last < ThrottleMs

\* The last MaxSent outbound messages.
Recent(s) == IF Len(s) > MaxSent THEN SubSeq(s, Len(s) - MaxSent + 1, Len(s)) ELSE s

\* One firing of the setInterval timer: sendInput().
SendInput ==
  /\ IF room /\ ~throttled(now, lastInputSent)
     THEN /\ sent' = Recent(Append(sent, [time |-> now, move |-> currentInput.move,
                                          jump |-> currentInput.jump,
                                          action |-> currentInput.action]))
          /\ lastInputSent' = now
          /\ unsent' = unsent \ {currentInput.action}
     ELSE UNCHANGED <<sent, lastInputSent, unsent>>
  /\ lastOp' = "sendInput"
  /\ applied' = FALSE
  /\ sameSnapshot' = FALSE
  /\ UNCHANGED <<now, sceneVars, inputVars, appVars,
                 eventVars, reports, effectVars, joyVars, clearTimers>>

\* ---------------------------------------------------------------- input arbiter (App)
MoveKeys == {"w", "s", "d", "arrowup"}

\* Math.hypot(v) > 0.05 on thousandths
exceedsDeadZone(v) == v[1] * v[1] + v[2] * v[2] > DeadZone * DeadZone

\* Variant: rey2 and mato get both axes inverted.
transformByRoleBothAxes(role, v) ==
  IF role = "rey" \/ role = "rey1" THEN <<v[1], 0 - v[2]>>
  ELSE IF role = "rey2" \/ role = "mato" THEN <<0 - v[1], 0 - v[2]>>
  ELSE <<v[1], 0 - v[2]>>

\* transformByRole(role, x, y)
transformByRole(role, v) ==
  IF role = "rey" \/ role = "rey1" THEN <<v[1], 0 - v[2]>>
  ELSE IF role = "rey2" \/ role = "mato" THEN <<0 - v[1], v[2]>>
  ELSE <<v[1], 0 - v[2]>>

\* Variant: the two branches swapped, the keyboard vector is tried first.
mergeSourcesKeyboardFirst(j, k, role) ==
  IF exceedsDeadZone(k) THEN [move |-> transformByRole(role, k), source |-> "keyboard"]
  ELSE IF exceedsDeadZone(j) THEN [move |-> transformByRole(role, j), source |-> "joystick"]
  ELSE [move |-> <<0, 0>>, source |-> "null"]

\* The precedence of applyMoveFromSources: the merged move and lastSourceRef.
mergeSources(j, k, role) ==
  IF exceedsDeadZone(j) THEN [move |-> transformByRole(role, j), source |-> "joystick"]
  ELSE IF exceedsDeadZone(k) THEN [move |-> transformByRole(role, k), source |-> "keyboard"]
  ELSE [move |-> <<0, 0>>, source |-> "null"]

\* applyMoveFromSources() with the vectors j and k in the refs; setInput(prev => ...)
\* reaches GameScene.setInput through App's input effect.
applyMoveFromSources(j, k) ==
  LET m == mergeSources(j, k, currentRole) IN
  /\ setInput([currentInput EXCEPT !.move = m.move])
  /\ lastSourceRef' = m.source

\* The vector handlerDown / handlerUp compute from the keys in the set:
\* opposite keys cancel, a diagonal is divided by its length (1/sqrt 2 = 0.707).
keyVector(keys) ==
  LET x == (IF "a" \in keys \/ "arrowleft" \in keys THEN -1 ELSE 0)
           + (IF "d" \in keys \/ "arrowright" \in keys THEN 1 ELSE 0)
      y == (IF "w" \in keys \/ "arrowup" \in keys THEN 1 ELSE 0)
           + (IF "s" \in keys \/ "arrowdown" \in keys THEN -1 ELSE 0)
  IN IF x # 0 /\ y # 0 THEN <<707 * x, 707 * y>> ELSE <<1000 * x, 1000 * y>>

\* Variant: the lastSourceRef guard dropped, a key event always recomputes.
keyMayApplyAlways(source) == TRUE

\* The test under which a key handler recomputes the merged move.
keyMayApply(source) == source # "joystick"

\* What handlerDown and handlerUp do once the key set is updated.
keyChanged(keys) ==
  /\ down' = keys
  /\ keyboardVecRef' = keyVector(keys)
  /\ IF keyMayApply(lastSourceRef)
     THEN /\ applyMoveFromSources(joystickVecRef, keyVector(keys))
          /\ applied' = TRUE
          /\ sameSnapshot' = FALSE
     ELSE /\ UNCHANGED <<inputVars, playerAnimations, headOverKick, lastSourceRef>>
          /\ applied' = FALSE
          /\ sameSnapshot' = FALSE
  /\ UNCHANGED <<now, joinPhase, room, myPlayerId, roomPlayers, playerMeshes, camera, lookTarget, disposed,
                 glows, created, removed, glowStarted, relabelled, sendVars, joystickVecRef,
                 currentRole,
                 eventVars, reports, effectVars, uiVars>>

\* keydown of a movement key (the browser repeats it while the key is held).
KeyDown(key) ==
  /\ joinPhase # "idle"
  /\ keysHeld' = keysHeld \cup {key}
  /\ keyChanged(down \cup {key})
  /\ lastOp' = "keydown"

\* keyup of a movement key.
KeyUp(key) ==
  /\ joinPhase # "idle"
  /\ key \in keysHeld
  /\ keysHeld' = keysHeld \ {key}
  /\ keyChanged(down \ {key})
  /\ lastOp' = "keyup"

\* handleJoystickMove(x, y)
handleJoystickMove(v) ==
  /\ joystickVecRef' = v
  /\ applyMoveFromSources(v, keyboardVecRef)
  /\ applied' = TRUE
  /\ sameSnapshot' = FALSE
  /\ UNCHANGED <<now, joinPhase, room, myPlayerId, roomPlayers, playerMeshes, camera, lookTarget, disposed,
                 glows, created, removed, glowStarted, relabelled, sendVars, keyboardVecRef,
                 down, keysHeld, currentRole,
                 eventVars, reports, effectVars, pressVars>>

\* The joystick reports the vector v through onMove.
JoystickMove(v) ==
  /\ joinPhase # "idle"
  /\ handleJoystickMove(v)
  /\ lastOp' = "handleJoystickMove"
  /\ UNCHANGED joyVars

\* ---------------------------------------------------------------- specifications
Init ==
  /\ now = 1000
  /\ joinPhase = "idle"
  /\ room = FALSE
  /\ myPlayerId = NoId
  /\ roomPlayers = EmptyMap
  /\ playerMeshes = EmptyMap
  /\ playerAnimations = EmptyMap
  /\ headOverKick = {}
  /\ camera = defaultCameraPos
  /\ lookTarget = <<0, 0, 0>>
  /\ disposed = Zero
  /\ glows = <<>>
  /\ created = Zero
  /\ removed = Zero
  /\ glowStarted = Zero
  /\ relabelled = Zero
  /\ currentInput = [move |-> <<0, 0>>, jump |-> FALSE, action |-> "null"]
  /\ staged = [move |-> <<0, 0>>, jump |-> FALSE, action |-> "null"]
  /\ lastInputSent = 0
  /\ sent = <<>>
  /\ lastOp = "init"
  /\ joystickVecRef = <<0, 0>>
  /\ keyboardVecRef = <<0, 0>>
  /\ lastSourceRef = "null"
  /\ down = {}
  /\ keysHeld = {}
  /\ currentRole = "queue"
  /\ applied = FALSE
  /\ quadrantOverlays = initialOverlays
  /\ restoreTimers = <<>>
  /\ highlightsSeen = [r \in OverlayRoles |-> 0]
  /\ tornDown = FALSE
  /\ disposeCalls = NoDisposals
  /\ reports = <<>>
  /\ sameSnapshot = FALSE
  /\ pulses = <<>>
  /\ glowReleased = NothingReleased
  /\ activePointerId = 0
  /\ lastOutRef = <<0, 0>>
  /\ knob = <<0, 0>>
  /\ eventPointer = 0
  /\ clearTimers = <<>>
  /\ unsent = {}

\* Reconciler: the session is joined and snapshots over all identifiers arrive.
Next ==
  \/ JoinGame
  \/ JoinResolved
  \/ JoinRejected
  \/ \E state \in SnapshotsOver(PlayerIds) : OnStateChange(state)

Spec == Init /\ [][Next]_vars

\* Animation records: the local player stays, the remote one comes and goes, actions
\* arrive locally (setInput) and remotely (playerAnimation), frames run between
\* clock steps of a quarter second.
AnimSnapshots ==
  { s \in SnapshotsOver(PlayerIds) :
      /\ SessionId \in DOMAIN s
      /\ \A p \in DOMAIN s : s[p].role = "rey" /\ s[p].x = 0 }

NextAnim ==
  \/ JoinGame
  \/ JoinResolved
  \/ \E state \in AnimSnapshots : OnStateChange(state)
  \/ \E action \in {"null"} \cup ActionKinds :
       room /\ SetInput([currentInput EXCEPT !.action = action])
  \/ \E action \in {"kick", "head"} : OnPlayerAnimation("B", action)
  \/ Update
  \/ AdvanceClock(250)

SpecAnim == Init /\ [][NextAnim]_vars

\* Input arbiter: joystick reports and key events interleaved with role changes.
JoystickVectors == { <<0, 0>>, <<30, 0>>, <<540, 720>> }
InputSnapshots ==
  {EmptyMap} \cup { [p \in {SessionId} |-> st] : st \in { ps \in PlayerStates : ps.x = 0 } }

NextInput ==
  \/ JoinGame
  \/ JoinResolved
  \/ \E state \in InputSnapshots : OnStateChange(state)
  \/ \E v \in JoystickVectors : JoystickMove(v)
  \/ \E key \in MoveKeys : KeyDown(key)
  \/ \E key \in MoveKeys : KeyUp(key)

SpecInput == Init /\ [][NextInput]_vars

\* Camera: one frame per clock step of CameraFrameMs, while snapshots between the
\* frames move the local player between the two halves of the court, or take it
\* out of the room state.
CameraFrameMs == 150
CameraSnapshots ==
  {EmptyMap} \cup { [p \in {SessionId} |-> st] : st \in { ps \in PlayerStates : ~ps.jumping } }
  \cup { [p \in {SessionId} |-> st] : st \in { ps \in PlayerStates : ps.jumping /\ ps.role = "rey" } }

NextCamera ==
  \/ JoinGame
  \/ JoinResolved
  \/ JoinRejected
  \/ \E state \in CameraSnapshots : OnStateChange(state)
  \/ lastOp = "clock" /\ Update
  \/ lastOp # "clock" /\ AdvanceClock(CameraFrameMs)

SpecCamera == Init /\ [][NextCamera]_vars

\* Colours: snapshots whose players carry well-formed and malformed colour strings.
ColorEmpty == <<>>
ColorBadHex == <<"#", "z", "z">>
ColorPartHex == <<"#", "1", "g">>
ColorPadded == <<" ", "#", "0", "0", "F", "F", "0", "0", " ">>
ColorHsl == <<"h", "s", "l", "(", "1", "2", "0", ",", " ", "1", "0", "0", "%", ",", "2", "5", "%", ")">>
ColorBrokenHsl == <<"h", "s", "l", "(", "1", "2", "0", ",", "5", "0", "%", ")">>
ColorGray == <<"g", "r", "a", "y">>
ColorUnknownName == <<"n", "o", "c", "o", "l", "o", "r">>
ColorStrings ==
  {ColorEmpty, ColorRed, ColorBadHex, ColorPartHex, ColorPadded, ColorHsl, ColorBrokenHsl,
   ColorGray, ColorUnknownName}

ColorStates ==
  { [x |-> 0, y |-> 0, z |-> 0, rotY |-> 0, role |-> "rey", jumping |-> FALSE, color |-> c] :
      c \in ColorStrings }
  \cup { [x |-> 50, y |-> 0, z |-> 50, rotY |-> 15, role |-> r, jumping |-> FALSE,
          color |-> ColorRed] : r \in {"mato", "queue"} }

ColorSnapshots ==
  { s \in UNION { [S -> ColorStates] : S \in SUBSET PlayerIds } :
      "B" \in DOMAIN s => s["B"].color = ColorRed }

NextColor ==
  \/ JoinGame
  \/ JoinResolved
  \/ \E state \in ColorSnapshots : OnStateChange(state)

SpecColor == Init /\ [][NextColor]_vars

\* Game events: highlight and animation messages, timeouts and frames on a clock of
\* EventClockMs; a timeout that is due runs before the clock moves on. The remote
\* player is never in a snapshot, so the messages about it name a missing target.
EventClockMs == 200
EventSnapshots ==
  { s \in SnapshotsOver({SessionId}) : \A p \in DOMAIN s : s[p].x = 0 /\ s[p].role = "rey" }

NextEvents ==
  \/ JoinGame
  \/ JoinResolved
  \/ \E state \in EventSnapshots : OnStateChange(state)
  \/ \E role \in {"rey", "queue"}, color \in {"red", "blue"} :
       OnQuadrantHighlight(role, color)
  \/ HighlightRestore
  \/ \E playerId \in PlayerIds : OnPlayerAnimation(playerId, "kick")
  \/ lastOp = "clock" /\ Update
  \/ /\ IF restoreTimers = <<>> THEN TRUE ELSE Head(restoreTimers).due > now
     /\ AdvanceClock(EventClockMs)

SpecEvents == Init /\ [][NextEvents]_vars

\* Teardown: the session is joined or rejected, entities come and go, the frame and
\* send timers run, and dispose() is called at any point.
TeardownSnapshots ==
  { s \in SnapshotsOver(PlayerIds) : \A p \in DOMAIN s : s[p].x = 0 /\ s[p].role = "rey" }

NextTeardown ==
  \/ JoinGame
  \/ JoinResolved
  \/ JoinRejected
  \/ \E state \in TeardownSnapshots : OnStateChange(state)
  \/ OnQuadrantHighlight("mato", "red")
  \/ HighlightRestore
  \/ lastOp = "clock" /\ Update
  \/ SendInput
  \/ Dispose
  \/ /\ IF restoreTimers = <<>> THEN TRUE ELSE Head(restoreTimers).due > now
     /\ AdvanceClock(EventClockMs)

SpecTeardown == Init /\ [][NextTeardown]_vars

\* Scale pulses: rolesRotated events arrive between the frames of the pulses they
\* started, while the remote player comes and goes.
PulseSnapshots ==
  { s \in SnapshotsOver(PlayerIds) :
      /\ SessionId \in DOMAIN s
      /\ \A p \in DOMAIN s : s[p].x = 0 /\ s[p].role = "rey" }

NextPulse ==
  \/ JoinGame
  \/ JoinResolved
  \/ \E state \in PulseSnapshots : OnStateChange(state)
  \/ OnRolesRotated
  \/ PulseFrame

SpecPulse == Init /\ [][NextPulse]_vars

\* Glows: role changes of the local player start glow effects between the frames
\* of the glows already running.
GlowSnapshots ==
  { s \in SnapshotsOver({SessionId}) : \A p \in DOMAIN s : s[p].x = 0 }

NextGlow ==
  \/ JoinGame
  \/ JoinResolved
  \/ \E state \in GlowSnapshots : OnStateChange(state)
  \/ GlowFrame

SpecGlow == Init /\ [][NextGlow]_vars

\* Ownership of the entity map: every handler of the scene runs against snapshots
\* in which the local player comes and goes; the remote player is never in a
\* snapshot, so the messages about it name an entity that does not exist. A frame
\* runs update() and then the pulse closures, once per clock step of the length
\* of a highlight flash; the send timer is followed when it is not throttled.
OwnerSnapshots ==
  { s \in SnapshotsOver({SessionId}) : \A p \in DOMAIN s : s[p].x = 0 /\ s[p].role = "rey" }

NextOwner ==
  \/ JoinGame
  \/ JoinResolved
  \/ \E state \in OwnerSnapshots : OnStateChange(state)
  \/ \E action \in {"null", "kick"} :
       room /\ SetInput([currentInput EXCEPT !.action = action])
  \/ OnPlayerAnimation("B", "kick")
  \/ OnQuadrantHighlight("rey", "red")
  \/ HighlightRestore
  \/ OnRolesRotated
  \/ lastOp = "update" /\ PulseFrame
  \/ lastOp = "clock" /\ Update
  \/ lastInputSent < now /\ SendInput
  \/ /\ IF restoreTimers = <<>> THEN TRUE ELSE Head(restoreTimers).due > now
     /\ AdvanceClock(FlashMs)

SpecOwner == Init /\ [][NextOwner]_vars

\* Framing: the local player stands where the horizontal shift reaches its limit
\* and far outside the court on either side, on both halves, and takes every role
\* at the centre; one frame runs per clock step of FramingFrameMs.
FramingFrameMs == 400
FramingRoles == {"rey", "rey1", "rey2", "mato", "queue"}
FramingStates ==
  { [x |-> x, y |-> 0, z |-> z, rotY |-> 0, role |-> r, jumping |-> FALSE, color |-> ColorRed] :
      x \in {-500, 75, 500}, z \in {-500, 500}, r \in {"rey", "mato"} }
  \cup { [x |-> 0, y |-> 0, z |-> 0, rotY |-> 0, role |-> r, jumping |-> FALSE,
          color |-> ColorRed] : r \in FramingRoles }
FramingSnapshots == {EmptyMap} \cup { [p \in {SessionId} |-> st] : st \in FramingStates }

NextFraming ==
  \/ JoinGame
  \/ JoinResolved
  \/ \E state \in FramingSnapshots : OnStateChange(state)
  \/ lastOp = "clock" /\ Update
  \/ lastOp # "clock" /\ AdvanceClock(FramingFrameMs)

SpecFraming == Init /\ [][NextFraming]_vars

\* Role transform: joystick reports and key events while the local player takes
\* every role.
RoleVectors == { <<0, 0>>, <<540, 720>>, <<-600, 0>> }
RoleSnapshots ==
  {EmptyMap}
  \cup { [p \in {SessionId} |->
           [x |-> 0, y |-> 0, z |-> 0, rotY |-> 0, role |-> r, jumping |-> FALSE,
            color |-> ColorRed]] : r \in FramingRoles }

NextRole ==
  \/ JoinGame
  \/ JoinResolved
  \/ \E state \in RoleSnapshots : OnStateChange(state)
  \/ \E v \in RoleVectors : JoystickMove(v)
  \/ \E key \in {"w", "d"} : KeyDown(key)
  \/ \E key \in {"w", "d"} : KeyUp(key)

SpecRole == Init /\ [][NextRole]_vars

\* Staged move: a joystick vector and a key are held while snapshots change the
\* local player's role and the send timer fires; the clock moves on after a
\* firing of the send timer.
StagedClockMs == 400
StagedVectors == { <<0, 0>>, <<540, 720>> }
StagedSnapshots ==
  { [p \in {SessionId} |-> st] : st \in { ps \in PlayerStates : ps.x = 0 } }

NextStaged ==
  \/ JoinGame
  \/ JoinResolved
  \/ \E state \in StagedSnapshots : OnStateChange(state)
  \/ \E v \in StagedVectors : JoystickMove(v)
  \/ KeyDown("w")
  \/ KeyUp("w")
  \/ SendInput
  \/ lastOp = "sendInput" /\ AdvanceClock(StagedClockMs)

SpecStaged == Init /\ [][NextStaged]_vars

\* Outbound throttle: the send timer and setInput on a fine clock.
SendClockSteps == {11, 22}
StagedInputs ==
  { [move |-> <<0, 0>>, jump |-> FALSE, action |-> "null"],
    [move |-> <<1000, 0>>, jump |-> FALSE, action |-> "null"],
    [move |-> <<0, -1000>>, jump |-> TRUE, action |-> "kick"] }
MaxSendTime == 1110

NextSend ==
  \/ JoinGame
  \/ JoinResolved
  \/ JoinRejected
  \/ \E input \in StagedInputs : SetInput(input)
  \/ SendInput
  \/ \E d \in SendClockSteps : now + d <= MaxSendTime /\ AdvanceClock(d)

SpecSend == Init /\ [][NextSend]_vars

\* ================================================================ claims
\* ---------------------------------------------------------------- C1
\* C1: when updateGameObjects(S) returns, playerMeshes holds exactly the identifiers
\* of S.players; each identifier of S not held before was created once, no held
\* identifier was created again, and each held identifier missing from S was
\* removed once.
C1_ReconcileSets ==
  [][ lastOp' = "updateGameObjects" =>
        /\ DOMAIN playerMeshes' = DOMAIN roomPlayers'
        /\ \A p \in PlayerIds :
             /\ created'[p] =
                  (IF p \in DOMAIN roomPlayers' /\ p \notin DOMAIN playerMeshes THEN 1 ELSE 0)
             /\ removed'[p] =
                  (IF p \in DOMAIN playerMeshes /\ p \notin DOMAIN roomPlayers' THEN 1 ELSE 0)
    ]_vars

\* {A} followed by {A, B}: one creation for B, none for A, no removal.
C1_Witness ==
  /\ lastOp = "updateGameObjects"
  /\ DOMAIN playerMeshes = {"A", "B"}
  /\ created = [p \in PlayerIds |-> IF p = "B" THEN 1 ELSE 0]
  /\ removed = Zero

\* ---------------------------------------------------------------- C2
\* C2: when updateGameObjects(S) returns, every entity of S has exactly the position
\* (x, y, z) and the yaw rotY that S gives, whatever its pose was before.
C2_PoseReplaced ==
  [][ lastOp' = "updateGameObjects" =>
        \A p \in DOMAIN roomPlayers' :
          /\ p \in DOMAIN playerMeshes'
          /\ playerMeshes'[p].position =
               <<roomPlayers'[p].x, roomPlayers'[p].y, roomPlayers'[p].z>>
          /\ playerMeshes'[p].rotY = roomPlayers'[p].rotY
    ]_vars

\* A persisting entity stands at the far pose after a snapshot moved it there.
C2_Witness ==
  /\ lastOp = "updateGameObjects"
  /\ "B" \in DOMAIN playerMeshes
  /\ created["B"] = 0
  /\ playerMeshes["B"].position = <<50, 0, 50>>
  /\ playerMeshes["B"].rotY = 15

\* ---------------------------------------------------------------- C3
\* C3: an entity removed because its identifier is absent from the snapshot has the
\* GPU resources of its subtree released before its entry is dropped.
C3_ReleasedOnRemoval ==
  \A p \in PlayerIds : removed[p] = 1 => disposed[p] = 1

\* ---------------------------------------------------------------- C4
\* C4: for a persisting identifier, a snapshot whose role differs from the cached
\* role rebuilds the label and starts exactly one glow in the new role's colour; a
\* snapshot that carries the cached role starts none. The role of the snapshot is
\* the one cached afterwards.
C4_GlowOncePerRoleChange ==
  [][ lastOp' = "updateGameObjects" =>
        /\ Len(glows') = Len(glows) + glowStarted'["A"] + glowStarted'["B"]
        /\ \A p \in DOMAIN playerMeshes \cap DOMAIN roomPlayers' :
             /\ playerMeshes'[p].role = roomPlayers'[p].role
             /\ playerMeshes'[p].label = roomPlayers'[p].role
             /\ IF playerMeshes[p].role # roomPlayers'[p].role
                THEN /\ glowStarted'[p] = 1
                     /\ relabelled'[p] = 1
                     /\ \E i \in (Len(glows) + 1)..Len(glows') :
                          glows'[i].color = getRoleColor(roomPlayers'[p].role)
                ELSE /\ glowStarted'[p] = 0
                     /\ relabelled'[p] = 0
    ]_vars

\* A persisting entity just changed role to mato and one glow in mato's colour runs.
C4_Witness ==
  /\ lastOp = "updateGameObjects"
  /\ "B" \in DOMAIN playerMeshes
  /\ created["B"] = 0
  /\ glowStarted["B"] = 1
  /\ playerMeshes["B"].role = "mato"
  /\ glows = <<[color |-> "FF6B6B", opacity |-> 78]>>

\* ---------------------------------------------------------------- C5
\* C5: once a head has replaced an in-flight kick of an entity, every tick leaves the
\* leg and foot attributes the kick drove at their rest values; only the head
\* animation (the character lean) drives the entity.
C5_HeadSupersedesKick ==
  lastOp = "update" =>
    \A p \in headOverKick \cap DOMAIN playerMeshes :
      /\ playerMeshes[p].rightLegRot = RestPose.rightLegRot
      /\ playerMeshes[p].rightFootZ = RestPose.rightFootZ
      /\ playerMeshes[p].rightFootRot = RestPose.rightFootRot
      /\ playerMeshes[p].leftLegRot = RestPose.leftLegRot
      /\ playerMeshes[p].leftFootZ = RestPose.leftFootZ

\* ---------------------------------------------------------------- C6
\* C6: for an entity that exists locally, a tick drops the record exactly when its
\* elapsed time has reached the duration (never earlier), and the tick that drops it
\* leaves every driven attribute at its rest value.
C6_DroppedAtDuration ==
  [][ lastOp' = "update" =>
        \A p \in DOMAIN playerAnimations \cap DOMAIN playerMeshes :
          /\ (p \notin DOMAIN playerAnimations') <=>
               (now - playerAnimations[p].startTime >= AnimDuration)
          /\ (p \notin DOMAIN playerAnimations') => PoseOf(playerMeshes'[p]) = RestPose
    ]_vars

\* ---------------------------------------------------------------- C7
\* C7: after every run of updatePlayerAnimations, playerAnimations holds no record
\* whose identifier is absent from playerMeshes.
C7_NoOrphanRecord ==
  lastOp = "update" => DOMAIN playerAnimations \subseteq DOMAIN playerMeshes

\* ---------------------------------------------------------------- C8
\* C8: after every run of applyMoveFromSources, a joystick vector above the dead zone
\* gives the staged move as its role transform with joystick as the active source;
\* otherwise a keyboard vector above the dead zone gives its role transform with
\* keyboard as the active source; otherwise the move is (0,0) and no source is active.
C8_JoystickPrecedence ==
  applied =>
    IF joystickVecRef[1] * joystickVecRef[1] + joystickVecRef[2] * joystickVecRef[2] > 2500
    THEN /\ currentInput.move = transformByRole(currentRole, joystickVecRef)
         /\ lastSourceRef = "joystick"
    ELSE IF keyboardVecRef[1] * keyboardVecRef[1] + keyboardVecRef[2] * keyboardVecRef[2] > 2500
         THEN /\ currentInput.move = transformByRole(currentRole, keyboardVecRef)
              /\ lastSourceRef = "keyboard"
         ELSE /\ currentInput.move = <<0, 0>>
              /\ lastSourceRef = "null"

\* A joystick vector of magnitude 0.9 was applied while the keyboard vector has
\* magnitude 1.0: the joystick wins.
C8_Witness ==
  /\ applied
  /\ lastOp = "handleJoystickMove"
  /\ joystickVecRef = <<540, 720>>
  /\ keyboardVecRef = <<1000, 0>>
  /\ lastSourceRef = "joystick"
  /\ currentRole = "mato"
  /\ currentInput.move = <<-540, 720>>

\* ---------------------------------------------------------------- C9
\* C9: a key down or key up that occurs while the joystick's last reported vector
\* exceeds the dead zone leaves the staged move and the active-source tag unchanged.
C9_KeysDoNotOverrideJoystick ==
  [][ (lastOp' \in {"keydown", "keyup"} /\ exceedsDeadZone(joystickVecRef)) =>
        /\ currentInput'.move = currentInput.move
        /\ lastSourceRef' = lastSourceRef
    ]_vars

\* A key went down during a drag: the keyboard vector is recorded, the staged move is
\* still the joystick's.
C9_Witness ==
  /\ lastOp = "keydown"
  /\ joystickVecRef = <<540, 720>>
  /\ keyboardVecRef = <<0, 1000>>
  /\ lastSourceRef = "joystick"
  /\ currentInput.move = <<540, -720>>

C11_LatestInputSent ==
  [][ (lastOp' = "sendInput" /\ sent' # sent) =>
        /\ lastInputSent' = now
        /\ sent' = Recent(Append(sent, [time |-> now, move |-> staged.move,
                                        jump |-> staged.jump, action |-> staged.action]))
    ]_vars

\* A kick with a jump was staged after a send of the zero input and is the message
\* now sent; no message ever carried the move (1, 0).
C11_Witness ==
  /\ lastOp = "sendInput"
  /\ Len(sent) >= 2
  /\ sent[Len(sent)].time = now
  /\ sent[Len(sent)].move = <<0, -1000>>
  /\ sent[Len(sent)].jump
  /\ sent[Len(sent) - 1].move = <<0, 0>>
  /\ \A i \in 1..Len(sent) : sent[i].move # <<1000, 0>>
  /\ playerAnimations # EmptyMap

\* ---------------------------------------------------------------- C12
\* C12: on every frame each camera coordinate moves by 0.06 of its distance to the
\* desired position (to the thousandth): when the two differ the displacement is
\* strictly smaller than the full delta, the remaining distance is 0.94 of the
\* previous one, and the camera does not land on the desired position; when they
\* agree the camera does not move.
C12_CameraEases ==
  [][ lastOp' = "update" =>
        \A i \in 1..3 :
          LET delta == desiredCameraPos[i] - camera[i]
              step == camera'[i] - camera[i]
              rest == desiredCameraPos[i] - camera'[i]
          IN /\ step * 100 - delta * 6 > -100 /\ step * 100 - delta * 6 < 100
             /\ rest * 100 - delta * 94 > -100 /\ rest * 100 - delta * 94 < 100
             /\ step * delta >= 0
             /\ delta # 0 => (step * step < delta * delta /\ camera'[i] # desiredCameraPos[i])
             /\ delta = 0 => step = 0
    ]_vars

\* The local player became mato while the camera stood at the default: the desired
\* position jumped to the other side of the court and one frame moved the camera
\* by 0.06 of the 40 units.
C12_Witness ==
  /\ lastOp = "update"
  /\ desiredCameraPos = <<0, 9000, -20000>>
  /\ camera = <<0, 9000, 17600>>

\* ---------------------------------------------------------------- C13
\* C13: while the local player is not in the room state (not joined, join pending,
\* join failed, or absent from the snapshot) a frame eases the camera toward the
\* fixed default (0, cameraHeight, courtHalfSize + baseCameraDistance) and looks at
\* (0, 1, 0); a camera at the default stays exactly at the default.
C13_DefaultFraming ==
  [][ (lastOp' = "update" /\ ~(room /\ myPlayerId \in DOMAIN roomPlayers)) =>
        /\ lookTarget' = <<0, 1000, 0>>
        /\ \A i \in 1..3 :
             LET delta == <<0, 9000, 20000>>[i] - camera[i]
             IN (camera'[i] - camera[i]) * 100 - delta * 6 > -100
                /\ (camera'[i] - camera[i]) * 100 - delta * 6 < 100
        /\ camera = <<0, 9000, 20000>> => camera' = <<0, 9000, 20000>>
    ]_vars

\* The join was rejected and frames keep running: the camera is at the default.
C13_Witness ==
  /\ lastOp = "update"
  /\ joinPhase = "failed"
  /\ ~room
  /\ now > 1000
  /\ camera = <<0, 9000, 20000>>
  /\ lookTarget = <<0, 1000, 0>>

\* ---------------------------------------------------------------- C14
\* C14: after a single quadrantHighlight message for rey, the rey overlay shows the
\* highlight colour at opacity 0.65 while the 600 ms timeout is pending (it runs
\* within one clock step of its due time), and once the timeout has run the
\* overlay has exactly the colour and opacity it had before the message.
C14_SingleHighlightRestored ==
  highlightsSeen["rey"] = 1 =>
    IF \E i \in 1..Len(restoreTimers) : restoreTimers[i].role = "rey"
    THEN /\ quadrantOverlays["rey"].color \in {"FF0000", "0000FF"}
         /\ quadrantOverlays["rey"].opacity = 65
         /\ \A i \in 1..Len(restoreTimers) :
              restoreTimers[i].role = "rey" => now < restoreTimers[i].due + EventClockMs
    ELSE quadrantOverlays["rey"] = [color |-> "FFD700", opacity |-> 30]

\* The timeout of the only highlight for rey has just run.
C14_Witness ==
  /\ lastOp = "highlightRestore"
  /\ highlightsSeen["rey"] = 1
  /\ restoreTimers = <<>>
  /\ now >= 1000 + FlashMs
  /\ quadrantOverlays["rey"] = [color |-> "FFD700", opacity |-> 30]

\* ---------------------------------------------------------------- C15
\* C15: once dispose() has been called no frame update, no step of a glow or of a
\* highlight restore runs any more, and no further 'input' message is sent.
C15_NothingFiresAfterDispose ==
  [][ tornDown =>
        /\ lastOp' \notin {"update", "glowAnimation", "highlightRestore"}
        /\ sent' = sent
    ]_vars

\* ---------------------------------------------------------------- C16
\* C16: dispose() makes exactly one dispose call on each distinct geometry, material
\* and texture of every entity in playerMeshes.
C16_EachResourceReleasedOnce ==
  lastOp = "dispose" =>
    \A p \in DOMAIN playerMeshes : \A r \in Resources : disposeCalls[p][r] = 1

\* ---------------------------------------------------------------- C17
\* C17: after a rejected join, joinGame has reported exactly one notification, with
\* connected = false and an error; the join is not attempted again, room stays
\* null, no 'input' message is sent and no snapshot or message is ever handled.
C17_RejectedJoin ==
  [][ /\ joinPhase = "failed" => joinPhase' = "failed"
      /\ joinPhase' = "failed" =>
           /\ reports' = <<[connected |-> FALSE, error |-> TRUE]>>
           /\ ~room'
           /\ myPlayerId' = NoId
           /\ sent' = <<>> /\ lastInputSent' = 0
           /\ roomPlayers' = EmptyMap /\ playerMeshes' = EmptyMap
           /\ playerAnimations' = EmptyMap
           /\ quadrantOverlays' = initialOverlays /\ restoreTimers' = <<>>
    ]_vars

\* The join was rejected and the send timer fired later without sending.
C17_Witness ==
  /\ joinPhase = "failed"
  /\ lastOp = "sendInput"
  /\ now > 1000
  /\ sent = <<>>
  /\ Len(reports) = 1

\* ---------------------------------------------------------------- C18
\* C18: a playerAnimation message naming an identifier that is not in playerMeshes
\* leaves the record (or the absence of a record) of that identifier as it was, and
\* a quadrantHighlight message naming a role without overlay starts no timeout;
\* both leave playerMeshes and every overlay unchanged.
C18_MissingTargetIgnored ==
  [][ /\ lastOp' = "playerAnimation" =>
           /\ \A p \in PlayerIds \ DOMAIN playerMeshes :
                /\ p \in DOMAIN playerAnimations' <=> p \in DOMAIN playerAnimations
                /\ p \in DOMAIN playerAnimations => playerAnimations'[p] = playerAnimations[p]
           /\ playerMeshes' = playerMeshes
           /\ quadrantOverlays' = quadrantOverlays
      /\ (lastOp' = "quadrantHighlight" /\ restoreTimers' = restoreTimers) =>
           /\ quadrantOverlays' = quadrantOverlays
           /\ playerMeshes' = playerMeshes
           /\ playerAnimations' = playerAnimations
    ]_vars

\* ---------------------------------------------------------------- C19
\* C19: a snapshot whose players carry malformed colour strings (empty, '#' with
\* non-hex text, a broken hsl form, an unknown name) is applied for every player,
\* and each such player gets the neutral colour 0x808080; an unknown role has the
\* neutral role colour 0x808080.
C19_MalformedColourNeutral ==
  lastOp = "updateGameObjects" =>
    /\ DOMAIN playerMeshes = DOMAIN roomPlayers
    /\ \A p \in DOMAIN roomPlayers :
         /\ roomPlayers[p].color \in {ColorEmpty, ColorBadHex, ColorBrokenHsl, ColorUnknownName}
              => playerMeshes[p].bodyColor = 8421504
         /\ roomPlayers[p].role \notin {"rey", "rey1", "rey2", "mato"}
              => getRoleColor(roomPlayers[p].role) = "808080"

\* ---------------------------------------------------------------- C20
\* C20: applying the snapshot that was just applied once more changes no entity
\* (same positions, yaws, colours, roles and labels), creates none, removes none,
\* starts no glow and rebuilds no label.
C20_SameSnapshotIdempotent ==
  [][ (lastOp' = "updateGameObjects" /\ sameSnapshot') =>
        /\ playerMeshes' = playerMeshes
        /\ created' = Zero /\ removed' = Zero
        /\ glowStarted' = Zero /\ relabelled' = Zero
        /\ glows' = glows
    ]_vars

\* A snapshot with two players, one moved and coloured by an hsl string, was applied
\* twice in a row.
C20_Witness ==
  /\ lastOp = "updateGameObjects"
  /\ sameSnapshot
  /\ DOMAIN playerMeshes = {"A", "B"}
  /\ playerMeshes["A"].bodyColor = 32768
  /\ playerMeshes["B"].position = <<50, 0, 50>>
  /\ playerMeshes["B"].rotY = 15


\* ---------------------------------------------------------------- C21
\* C21: an action event (setInput or a playerAnimation message) that leaves an
\* entity with a record of the kind it already had in flight leaves that record's
\* start time unchanged.
C21_SameKindDoesNotRestart ==
  [][ lastOp' \in {"setInput", "playerAnimation"} =>
        \A p \in DOMAIN playerAnimations \cap DOMAIN playerAnimations' :
          ( /\ isRunning(playerAnimations[p], now - playerAnimations[p].startTime)
            /\ playerAnimations'[p].type = playerAnimations[p].type )
          => playerAnimations'[p].startTime = playerAnimations[p].startTime
    ]_vars

\* ---------------------------------------------------------------- C22
\* C22: after every tick, every entity of playerMeshes without a record in
\* playerAnimations has its leg rotations, foot offsets, right-foot rotation and
\* character lean at their rest values.
C22_RestWithoutRecord ==
  lastOp = "update" =>
    \A p \in DOMAIN playerMeshes \ DOMAIN playerAnimations :
      PoseOf(playerMeshes[p]) = RestPose

\* A tick has dropped the record the local player's staged kick started, and the
\* remote player, whose kick message came later, is still being driven.
C22_Witness ==
  /\ lastOp = "update"
  /\ DOMAIN playerMeshes = {"A", "B"}
  /\ currentInput.action = "kick"
  /\ "A" \notin DOMAIN playerAnimations
  /\ "B" \in DOMAIN playerAnimations
  /\ playerMeshes["B"].rightLegRot = 12000
  /\ PoseOf(playerMeshes["A"]) = RestPose

\* ---------------------------------------------------------------- C23
\* C23: every record held in playerAnimations has the action kind kick or head.
C23_RecordsAreKickOrHead ==
  \A p \in DOMAIN playerAnimations : playerAnimations[p].type \in {"kick", "head"}

\* ---------------------------------------------------------------- C24
\* C24: whatever quadrantHighlight messages arrived for a role, once no timeout of
\* that role is pending (600 ms after the last message) its overlay has the colour
\* and opacity it had before the first message.
C24_OverlappingHighlightsRestored ==
  \A r \in OverlayRoles :
    (\A i \in 1..Len(restoreTimers) : restoreTimers[i].role # r)
      => quadrantOverlays[r] = initialOverlays[r]

\* ---------------------------------------------------------------- C25
\* C25: whatever rolesRotated events arrived, once every pulse has completed each
\* entity has the scale it had before the first pulse started (the scale 1 it was
\* created with).
C25_PulsesRestoreScale ==
  pulses = <<>> => \A p \in DOMAIN playerMeshes : playerMeshes[p].scale = 1000

\* ---------------------------------------------------------------- C26
\* C26: every running glow has a positive opacity of at most 0.78, which each frame
\* lowers by 0.02, so a glow ends within 40 steps; the frame that brings a glow's
\* opacity to zero or below takes it off the running closures and makes one
\* scene.remove, one geometry dispose and one material dispose for it, and no
\* other glow is released; this for all glows running in that frame.
C26_GlowEndsAndReleasesOnce ==
  [][ lastOp' = "glowAnimation" =>
        LET ending == { i \in 1..Len(glows) : glows[i].opacity - 2 <= 0 }
            going == { i \in 1..Len(glows) : glows[i].opacity - 2 > 0 }
        IN /\ Len(glows') = Cardinality(going)
           /\ \A i \in 1..Len(glows') : glows'[i].opacity \in 1..76
           /\ \A i \in going :
                \E j \in 1..Len(glows') :
                  glows'[j] = [glows[i] EXCEPT !.opacity = @ - 2]
           /\ glowReleased'.ended = Cardinality(ending)
           /\ glowReleased'.sceneRemoved = Cardinality(ending)
           /\ glowReleased'.geometry = Cardinality(ending)
           /\ glowReleased'.material = Cardinality(ending)
    ]_vars

\* Of two glows running at the same time, the older one has just ended and been
\* released, and the younger one is still running.
C26_Witness ==
  /\ lastOp = "glowAnimation"
  /\ glowReleased = [ended |-> 1, sceneRemoved |-> 1, geometry |-> 1, material |-> 1]
  /\ Len(glows) = 1
  /\ glows[1].opacity > 0

\* ---------------------------------------------------------------- C27
\* C27: no handler other than updateGameObjects (update with updatePlayerAnimations,
\* animatePlayerKick, handleGameEvent and the closures it starts, setInput,
\* sendInput) changes the set of identifiers held in playerMeshes.
C27_OnlyReconcilerOwnsMap ==
  [][ lastOp' # "updateGameObjects" => DOMAIN playerMeshes' = DOMAIN playerMeshes ]_vars

\* A frame has dropped the finished record of the local player's kick, after a
\* kick message for an entity that does not exist, a highlight, a pulse and an
\* outbound message; the map still holds the local player only.
C27_Witness ==
  /\ lastOp = "update"
  /\ DOMAIN playerMeshes = {"A"}
  /\ currentInput.action = "kick"
  /\ "A" \notin DOMAIN playerAnimations
  /\ "B" \in DOMAIN playerAnimations
  /\ highlightsSeen["rey"] >= 1
  /\ playerMeshes["A"].scale # 1000
  /\ sent # <<>>

\* ---------------------------------------------------------------- C28
\* C28: wherever the local player is, the desired camera position has a horizontal
\* offset within [-3, 3], the height cameraHeight, and a depth within 2 units of
\* +(courtHalfSize + baseCameraDistance) or of -(courtHalfSize + baseCameraDistance).
C28_DesiredPositionBounded ==
  (room /\ myPlayerId \in DOMAIN roomPlayers) =>
    LET far == (courtHalfSize + baseCameraDistance) * 1000 IN
    /\ desiredCameraPos[1] \in -3000..3000
    /\ desiredCameraPos[2] = cameraHeight * 1000
    /\ \/ desiredCameraPos[3] \in (far - 2000)..(far + 2000)
       \/ desiredCameraPos[3] \in (0 - far - 2000)..(0 - far + 2000)

\* A frame has run with the local player 50 units off the court on both axes.
C28_Witness ==
  /\ lastOp = "update"
  /\ room /\ myPlayerId \in DOMAIN roomPlayers
  /\ roomPlayers[myPlayerId].x = 500
  /\ roomPlayers[myPlayerId].z = -500
  /\ roomPlayers[myPlayerId].role = "rey"
  /\ desiredCameraPos = <<3000, 9000, 18000>>

\* ---------------------------------------------------------------- C29
\* C29: with the local player present, the desired camera depth is positive when
\* its role is rey or rey1 and negative for every other role (rey2, mato, and
\* roles without a quadrant such as queue).
C29_SideFollowsRole ==
  (room /\ myPlayerId \in DOMAIN roomPlayers) =>
    IF roomPlayers[myPlayerId].role \in {"rey", "rey1"}
    THEN desiredCameraPos[3] > 0
    ELSE desiredCameraPos[3] < 0

\* A frame has moved the camera towards the negative side for a queued player.
C29_Witness ==
  /\ lastOp = "update"
  /\ room /\ myPlayerId \in DOMAIN roomPlayers
  /\ roomPlayers[myPlayerId].role = "queue"
  /\ desiredCameraPos[3] = -20000
  /\ camera[3] < 20000

C32_NoGlowOnFirstSighting ==
  lastOp = "updateGameObjects" =>
    \A p \in PlayerIds : created[p] = 1 => glowStarted[p] = 0

\* The first snapshot has created both entities, one of them as mato, and no glow
\* is running.
C32_Witness ==
  /\ lastOp = "updateGameObjects"
  /\ created = [p \in PlayerIds |-> 1]
  /\ roomPlayers["A"].role = "mato"
  /\ roomPlayers["B"].role = "rey"
  /\ playerMeshes["A"].role = "mato"
  /\ glows = <<>>

\* ---------------------------------------------------------------- C34
\* C34: after every keydown and keyup, the keyboard vector is the direction of the
\* movement keys that are held at that moment (opposite keys cancelling), also when
\* role changes of the local player came between the key events.
C34_KeyboardVectorTracksKeys ==
  lastOp \in {"keydown", "keyup"} => keyboardVecRef = keyVector(keysHeld)

\* ---------------------------------------------------------------- C38
\* C38: when the joystick reports (0,0) while movement keys are held whose
\* directions do not cancel, that update stages the role transform of the
\* keyboard vector with keyboard as the active source; with no key held it stages
\* (0,0) with no active source.
C38_KeyboardTakesOver ==
  (lastOp = "handleJoystickMove" /\ joystickVecRef = <<0, 0>>) =>
    IF keyVector(keysHeld) # <<0, 0>>
    THEN /\ currentInput.move = transformByRole(currentRole, keyboardVecRef)
         /\ lastSourceRef = "keyboard"
    ELSE keysHeld = {} => (currentInput.move = <<0, 0>> /\ lastSourceRef = "null")

\* ---------------------------------------------------------------- C35
\* C35: the move of every outbound message is the role transform, under the role
\* the local player has when the message is sent, of the source vector that wins
\* the precedence at that moment.
C35_SentMoveFollowsRole ==
  [][ (lastOp' = "sendInput" /\ sent' # sent) =>
        sent'[Len(sent')].move = mergeSources(joystickVecRef, keyboardVecRef, currentRole).move
    ]_vars

\* ---------------------------------------------------------------- joystick (RcJoystickWrapper)
\* Pointer offsets are whole pixels from the centre of the base; the knob offset is kept in
\* thousandths of a pixel and every vector in thousandths.
ContainerSize == 150   \* rect.width = rect.height of the joystick base, pixels
KnobWidth == 50        \* knobRef.current.offsetWidth, pixels
KnobDeadZone == 50     \* m < 0.05
EmitThreshold == 10    \* Math.abs(out - lastOut) > 0.01
PointerIds == {1, 2}

\* Pointer positions relative to the centre: inside the dead zone, part way out, on the rim,
\* and beyond the rim in the same direction.
KnobOffsets == { <<2, 0>>, <<30, 0>>, <<30, -40>>, <<90, -120>> }

Abs(n) == IF n < 0 THEN 0 - n ELSE n

\* The largest r in lo..hi with r * r <= s.
RECURSIVE SqrtBetween(_, _, _)
SqrtBetween(s, lo, hi) ==
  IF lo = hi THEN lo
  ELSE LET mid == (lo + hi + 1) \div 2
       IN IF mid * mid <= s THEN SqrtBetween(s, mid, hi) ELSE SqrtBetween(s, lo, mid - 1)

\* Math.hypot(v), rounded down.
Hypot(v) == SqrtBetween(v[1] * v[1] + v[2] * v[2], 0, Abs(v[1]) + Abs(v[2]))

\* radiusRef.current: Math.min(rect.width, rect.height) / 2 - knobHalf
maxR ==
  LET knobHalf == IF KnobWidth \div 2 > 20 THEN KnobWidth \div 2 ELSE 20
  IN ContainerSize \div 2 - knobHalf

\* The pointer offset clamped to the circle of radius maxR (what setKnob receives).
clampToRadius(d) ==
  IF d[1] * d[1] + d[2] * d[2] > maxR * maxR
  THEN <<Quot(d[1] * maxR * 1000, Hypot(d)), Quot(d[2] * maxR * 1000, Hypot(d))>>
  ELSE <<d[1] * 1000, d[2] * 1000>>

\* nx, ny: the knob offset divided by maxR.
normalised(k) == <<Quot(k[1], maxR), Quot(k[2], maxR)>>

inDeadZone(n) == n[1] * n[1] + n[2] * n[2] < KnobDeadZone * KnobDeadZone

\* The arguments handlePointerDown / handlePointerMove give emitMove: zero inside the dead
\* zone, otherwise the normalised offset with the y axis turned upwards.
deadZoned(n) == IF inDeadZone(n) THEN <<0, 0>> ELSE <<n[1], 0 - n[2]>>

\* Math.pow(Math.min(1, mag), 0.85) * 1.15 in thousandths, tabulated every 0.05.
ResponseCurve(mag) ==
  LET table == << 0, 90, 162, 229, 293, 354, 413, 471, 528, 583, 638,
                  692, 745, 797, 849, 901, 951, 1002, 1051, 1101, 1150 >>
      m == IF mag > 1000 THEN 1000 ELSE mag
  IN table[(m \div 50) + 1]

\* Variant: the outer Math.min(1, ...) dropped.
ResponseUncapped(mag) == ResponseCurve(mag)

\* responsiveMag = Math.min(1, Math.pow(Math.min(1, mag), 0.85) * 1.15)
Response(mag) == IF ResponseCurve(mag) > 1000 THEN 1000 ELSE ResponseCurve(mag)

\* outX, outY of emitMove: the direction of v with the magnitude Response(|v|).
curved(v) ==
  LET mag == Hypot(v)
  IN IF mag > 0
     THEN <<Quot(Response(mag) * v[1], mag), Quot(Response(mag) * v[2], mag)>>
     ELSE v

\* emitMove's test for delivering out.
delivers(out, last) ==
  Abs(out[1] - last[1]) > EmitThreshold \/ Abs(out[2] - last[2]) > EmitThreshold

\* Variant: the active-pointer test dropped, every pointer drives the joystick.
isActivePointerAny(active, id) == TRUE

\* activePointerId.current === e.pointerId
isActivePointer(active, id) == active = id

\* A pointer event the wrapper returns from without calling onMove.
nothingDelivered ==
  /\ applied' = FALSE
  /\ sameSnapshot' = FALSE
  /\ UNCHANGED <<now, sceneVars, inputVars, sendVars, appVars, eventVars, reports, effectVars,
                 pressVars>>

\* emitMove(x, y)
emitMove(v) ==
  LET out == curved(v)
  IN IF delivers(out, lastOutRef)
     THEN /\ lastOutRef' = out
          /\ handleJoystickMove(out)
     ELSE /\ UNCHANGED lastOutRef
          /\ nothingDelivered

\* handlePointerDown
PointerDown(id, d) ==
  /\ joinPhase # "idle"
  /\ eventPointer' = id
  /\ lastOp' = "pointerdown"
  /\ IF activePointerId # 0
     THEN /\ UNCHANGED <<activePointerId, knob, lastOutRef>>
          /\ nothingDelivered
     ELSE /\ activePointerId' = id
          /\ knob' = clampToRadius(d)
          /\ emitMove(deadZoned(normalised(clampToRadius(d))))

\* handlePointerMove
PointerMove(id, d) ==
  /\ joinPhase # "idle"
  /\ eventPointer' = id
  /\ lastOp' = "pointermove"
  /\ IF ~isActivePointer(activePointerId, id)
     THEN /\ UNCHANGED <<activePointerId, knob, lastOutRef>>
          /\ nothingDelivered
     ELSE /\ UNCHANGED activePointerId
          /\ knob' = clampToRadius(d)
          /\ emitMove(deadZoned(normalised(clampToRadius(d))))

\* handlePointerUp, also bound to onPointerCancel
PointerUp(id) ==
  /\ joinPhase # "idle"
  /\ eventPointer' = id
  /\ lastOp' = "pointerup"
  /\ IF ~isActivePointer(activePointerId, id)
     THEN /\ UNCHANGED <<activePointerId, knob, lastOutRef>>
          /\ nothingDelivered
     ELSE /\ activePointerId' = 0
          /\ knob' = <<0, 0>>
          /\ UNCHANGED lastOutRef
          /\ handleJoystickMove(<<0, 0>>)

\* handleMove of the mouse/touch Joystick component (src/ui/Joystick.tsx): the vector it
\* gives onMove for a pointer offset d while dragging.
joystickHandleMove(d) ==
  LET n == normalised(clampToRadius(d))
  IN curved(<<n[1], 0 - n[2]>>)

\* The joystick driven by two pointers, with the keyboard and the role of the local player.
JoystickKeys == {"w", "d", "s"}
JoystickSnapshots ==
  { [p \in {SessionId} |-> st] : st \in { ps \in PlayerStates : ps.x = 0 } }
NextJoystick ==
  \/ JoinGame
  \/ JoinResolved
  \/ \E state \in JoystickSnapshots : OnStateChange(state)
  \/ \E id \in PointerIds, d \in KnobOffsets : PointerDown(id, d)
  \/ \E id \in PointerIds, d \in KnobOffsets : PointerMove(id, d)
  \/ \E id \in PointerIds : PointerUp(id)
  \/ \E key \in JoystickKeys : KeyDown(key)
  \/ \E key \in JoystickKeys : KeyUp(key)
SpecJoystick == Init /\ [][NextJoystick]_vars

\* C37: the joystick follows one pointer at a time. A pointer-down while a pointer is active,
\* and a move, up or cancel of any other pointer, change neither the active pointer nor the
\* vector reported to the application; the active pointer is given up only by its own up or
\* cancel, which reports (0, 0) and leaves the joystick free.
C37_SinglePointer ==
  [][ lastOp' \in {"pointerdown", "pointermove", "pointerup"} =>
        /\ (lastOp' = "pointerdown" /\ activePointerId # 0) =>
             UNCHANGED <<activePointerId, joystickVecRef, currentInput>>
        /\ (lastOp' \in {"pointermove", "pointerup"} /\ eventPointer' # activePointerId) =>
             UNCHANGED <<activePointerId, joystickVecRef, currentInput>>
        /\ (activePointerId # 0 /\ activePointerId' # activePointerId) =>
             (lastOp' = "pointerup" /\ eventPointer' = activePointerId)
        /\ (lastOp' = "pointerup" /\ activePointerId # 0 /\ eventPointer' = activePointerId) =>
             (activePointerId' = 0 /\ joystickVecRef' = <<0, 0>>)
    ]_vars

\* A second pointer was lifted while the first one holds the knob on the rim.
C37_Witness ==
  /\ lastOp = "pointerup"
  /\ eventPointer = 2
  /\ activePointerId = 1
  /\ joystickVecRef = <<600, 800>>
  /\ knob = <<30000, -40000>>

\* C36: whenever a pointer holds the joystick with its normalised offset outside the dead
\* zone, the vector last delivered through onMove is within 0.01 per axis of the
\* response-curved offset.
C36_DeliveredTracksKnob ==
  (activePointerId # 0 /\ ~inDeadZone(normalised(knob))) =>
    ~delivers(curved(deadZoned(normalised(knob))), joystickVecRef)

\* C31: every staged move vector has both components in [-1, 1] and a magnitude of at most 1,
\* whatever the joystick offset and whatever keys are held; the same holds for the vector
\* the mouse/touch Joystick component computes for any offset.
C31_MoveWithinUnitDisc ==
  /\ staged.move[1] \in -1000..1000
  /\ staged.move[2] \in -1000..1000
  /\ staged.move[1] * staged.move[1] + staged.move[2] * staged.move[2] <= 1000 * 1000
  /\ \A d \in KnobOffsets :
       LET out == joystickHandleMove(d)
       IN out[1] * out[1] + out[2] * out[2] <= 1000 * 1000

\* The knob was dragged beyond the rim while two keys are held and the local player is mato:
\* the staged move is the transformed joystick vector, of magnitude 1.
C31_Witness ==
  /\ lastOp = "pointermove"
  /\ knob = <<30000, -40000>>
  /\ joystickVecRef = <<600, 800>>
  /\ keysHeld = {"w", "d"}
  /\ keyboardVecRef = <<707, 707>>
  /\ currentRole = "mato"
  /\ staged.move = transformByRole("mato", <<600, 800>>)

\* ---------------------------------------------------------------- action buttons (App)
ActionClearMs == 100   \* setTimeout(..., 100) of handleKick / handleHead
SendPeriodMs == 1000 \div 30   \* setInterval(..., 1000 / 30)
MaxPending == 2        \* clear timers pending at once
MaxPressTime == 1240   \* the clock of the button specification stops here
PressKinds == {"kick", "head"}

\* handleKick / handleHead: the action is staged and a timer is set to clear it.
PressAction(kind) ==
  /\ joinPhase # "idle"
  /\ setInput([currentInput EXCEPT !.action = kind])
  /\ clearTimers' = Append(clearTimers, now + ActionClearMs)
  /\ unsent' = unsent \cup {kind}
  /\ lastOp' = "press"
  /\ applied' = FALSE
  /\ sameSnapshot' = FALSE
  /\ UNCHANGED <<now, joinPhase, room, myPlayerId, roomPlayers, playerMeshes, camera, lookTarget, disposed,
                 glows, created, removed, glowStarted, relabelled, sendVars, appVars,
                 eventVars, reports, effectVars, joyVars>>

\* The oldest pending timer fires: setInput(prev => ({ ...prev, action: null })).
ClearAction ==
  /\ clearTimers # <<>>
  /\ IF clearTimers = <<>> THEN FALSE ELSE Head(clearTimers) <= now
  /\ setInput([currentInput EXCEPT !.action = "null"])
  /\ clearTimers' = Tail(clearTimers)
  /\ lastOp' = "clearAction"
  /\ applied' = FALSE
  /\ sameSnapshot' = FALSE
  /\ UNCHANGED <<now, joinPhase, room, myPlayerId, roomPlayers, playerMeshes, camera, lookTarget, disposed,
                 glows, created, removed, glowStarted, relabelled, sendVars, appVars,
                 eventVars, reports, effectVars, joyVars, unsent>>

\* The send timer is due.
tickDue == now >= lastInputSent + SendPeriodMs

\* The time of the next timer to fire: the send timer or the oldest clear timer.
nextEventTime ==
  LET tick == lastInputSent + SendPeriodMs
  IN IF clearTimers = <<>> THEN tick
     ELSE IF Head(clearTimers) < tick THEN Head(clearTimers) ELSE tick

\* The buttons pressed in a joined room while the send timer fires every period: time passes
\* from one timer to the next, a due timer fires before time passes, and a button can be
\* pressed before or after the timers of an instant.
NextPress ==
  \/ JoinGame
  \/ JoinResolved
  \/ \E kind \in PressKinds : room /\ Len(clearTimers) < MaxPending /\ PressAction(kind)
  \/ ClearAction
  \/ tickDue /\ SendInput
  \/ /\ room
     /\ nextEventTime > now
     /\ nextEventTime <= MaxPressTime
     /\ AdvanceClock(nextEventTime - now)
SpecPress == Init /\ [][NextPress]_vars

\* C33: while a room is joined and the send timer keeps firing, every press of KICK or HEAD
\* results in at least one outbound message with that action: once no clear timer is
\* pending and the staged action is empty, no pressed action is still waiting to be sent.
C33_EveryPressSent ==
  (room /\ clearTimers = <<>> /\ currentInput.action = "null") => unsent = {}

====
